---- MODULE Spec2Model ----
(***************************************************************************)
(* Model of the microsite MCP service: the serverless protocol adapter     *)
(* (main / handleMcpRequest), the credential resolver (getAEMCredentials), *)
(* the site-name sanitization and the site provisioning operations         *)
(* (createSite / createMicrosite / deleteSite and the aem-create-microsite *)
(* and aem-delete-site tool handlers).                                     *)
(*                                                                         *)
(* JavaScript strings are modelled as sequences of one-character strings,  *)
(* so that toLowerCase, the regular-expression replaces and the path       *)
(* concatenations are computed rather than assumed.                        *)
(***************************************************************************)
EXTENDS Integers, Sequences, FiniteSets, TLC

VARIABLES
    \* ---- sanitization component
    spc, sIn, sOut, sOut2,
    \* ---- credential resolver component
    cpc, cParams, cEnv, cOut,
    \* ---- protocol adapter component (one invocation of main)
    mpc, mParams, logger, delegated, raised, server, transport, res, response,
    \* ---- site provisioning component (one client/tool call at a time)
    pc, op, args, env, repo, log, loc, siteResult, msResult, toolResult,
    \* ---- one call of a client method, tool handler or adapter helper: the
    \* function under way, its arguments, its result, the requests it issued
    fn, input, output, trace,
    \* ---- invocations of main sharing one process: each one's parameters
    \* and frame (position, locals, response), the module-level logger
    \* handle, and the constructor and method calls made on SDK instances
    invParams, inv, moduleLogger, calls

sanVars  == <<spc, sIn, sOut, sOut2>>
credVars == <<cpc, cParams, cEnv, cOut>>
mainVars == <<mpc, mParams, logger, delegated, raised, server, transport, res, response>>
siteVars == <<pc, op, args, env, repo, log, loc, siteResult, msResult, toolResult>>
callVars == <<fn, input, output, trace>>
invVars  == <<invParams, inv, moduleLogger, calls>>
vars     == <<sanVars, credVars, mainVars, siteVars, callVars, invVars>>

\* No call of the fourth kind is under way.
CallIdle ==
    /\ fn = "none"
    /\ input = <<>>
    /\ output = <<>>
    /\ trace = <<>>

\* No invocation of the interleaved kind exists.
InvIdle ==
    /\ invParams = <<>>
    /\ inv = <<>>
    /\ moduleLogger = "null"
    /\ calls = <<>>

\* An optional string: JavaScript's undefined (an absent parameter or
\* environment variable) or a string value.
Undef == [def |-> FALSE, v |-> <<>>]
Str(s) == [def |-> TRUE, v |-> s]

\* JavaScript truthiness of an optional string: undefined and "" are falsy.
Truthy(x) == x.def /\ x.v # <<>>

\* a || b
OrElse(a, b) == IF Truthy(a) THEN a ELSE b

(***************************************************************************)
(* Strings                                                                 *)
(***************************************************************************)
UpperLetters ==
    <<"A","B","C","D","E","F","G","H","I","J","K","L","M",
      "N","O","P","Q","R","S","T","U","V","W","X","Y","Z">>
LowerLetters ==
    <<"a","b","c","d","e","f","g","h","i","j","k","l","m",
      "n","o","p","q","r","s","t","u","v","w","x","y","z">>
Digits == {"0","1","2","3","4","5","6","7","8","9"}
\* The characters matched by \s that the model draws from.
Whitespace == {" ", "\t"}

Range(f) == {f[i] : i \in DOMAIN f}

ToLowerChar(c) ==
    IF \E i \in DOMAIN UpperLetters : UpperLetters[i] = c
    THEN LowerLetters[CHOOSE i \in DOMAIN UpperLetters : UpperLetters[i] = c]
    ELSE c

ToUpperChar(c) ==
    IF \E i \in DOMAIN LowerLetters : LowerLetters[i] = c
    THEN UpperLetters[CHOOSE i \in DOMAIN LowerLetters : LowerLetters[i] = c]
    ELSE c

\* String.prototype.toLowerCase / toUpperCase
ToLowerCase(s) == [i \in DOMAIN s |-> ToLowerChar(s[i])]
ToUpperCase(s) == [i \in DOMAIN s |-> ToUpperChar(s[i])]

\* s with its leading run of whitespace dropped
RECURSIVE DropWs(_)
DropWs(s) ==
    IF s = <<>> \/ Head(s) \notin Whitespace THEN s ELSE DropWs(Tail(s))

\* s.replace(/\s+/g, '-'): every maximal run of whitespace becomes one hyphen
RECURSIVE ReplaceWsRuns(_)
ReplaceWsRuns(s) ==
    IF s = <<>> THEN <<>>
    ELSE IF Head(s) \in Whitespace THEN <<"-">> \o ReplaceWsRuns(DropWs(s))
    ELSE <<Head(s)>> \o ReplaceWsRuns(Tail(s))

NameChars == Range(LowerLetters) \cup Digits \cup {"-"}

\* s.replace(/[^a-z0-9-]/g, '-')
ReplaceNonNameChars(s) ==
    [i \in DOMAIN s |-> IF s[i] \in NameChars THEN s[i] ELSE "-"]

\* A plausible slip: the final character-class replace is left out.
SanitizeWithoutCharClass(s) == ReplaceWsRuns(ToLowerCase(s))

\* siteName.toLowerCase().replace(/\s+/g, '-').replace(/[^a-z0-9-]/g, '-')
Sanitize(s) == ReplaceNonNameChars(ReplaceWsRuns(ToLowerCase(s)))

\* siteTitle.toLowerCase().replace(/\s+/g, '-')
DeriveSiteName(title) == ReplaceWsRuns(ToLowerCase(title))

\* All strings over alphabet A of length at most n
StringsUpTo(A, n) == UNION {[1..k -> A] : k \in 0..n}

(***************************************************************************)
(* Sanitization: the function applied once and applied again               *)
(***************************************************************************)
MaxNameLen == 3
SanAlphabet == {"m", "Y", "7", "-", " ", "\t", "!"}

MyAwesomeSite ==
    <<"M","y"," ","A","w","e","s","o","m","e"," ","S","i","t","e","!">>
MyAwesomeSiteSanitized ==
    <<"m","y","-","a","w","e","s","o","m","e","-","s","i","t","e","-">>

SanInputs == StringsUpTo(SanAlphabet, MaxNameLen) \cup {MyAwesomeSite}

SanIdle == spc = "off" /\ sIn = <<>> /\ sOut = <<>> /\ sOut2 = <<>>

SanInit ==
    /\ spc = "input"
    /\ sIn \in SanInputs
    /\ sOut = <<>>
    /\ sOut2 = <<>>

SanApply ==
    /\ spc = "input"
    /\ sOut' = Sanitize(sIn)
    /\ spc' = "once"
    /\ UNCHANGED <<sIn, sOut2>>
    /\ UNCHANGED <<credVars, mainVars, siteVars, callVars, invVars>>

SanReapply ==
    /\ spc = "once"
    /\ sOut2' = Sanitize(sOut)
    /\ spc' = "twice"
    /\ UNCHANGED <<sIn, sOut>>
    /\ UNCHANGED <<credVars, mainVars, siteVars, callVars, invVars>>

(***************************************************************************)
(* Credential resolver: getAEMCredentials                                  *)
(***************************************************************************)
\* s.includes(needle), on strings given as sequences of tokens
Includes(s, needle) ==
    \E i \in 1..(Len(s) - Len(needle) + 1) :
        SubSeq(s, i, i + Len(needle) - 1) = needle

CloudMarker == <<"adobeaemcloud.com">>
DefaultAuthorUrl == <<"https://", "author-p18253-e46622.", "adobeaemcloud.com">>
CloudUrl == <<"https://", "author-p1-e2.", "adobeaemcloud.com">>
OnPremUrl == <<"https://", "aem.example.com">>
LocalUrl == <<"http://", "localhost:4502">>

NoCredentials == [token |-> Undef, username |-> Undef, password |-> Undef]

\* A plausible slip: the token always wins when there is one.
GetAEMCredentialsTokenFirst(params, e) ==
    LET finalAuthorUrl ==
            OrElse(params.authorUrl,
                   OrElse(params.server, OrElse(e.AEM_AUTHOR_URL, Str(DefaultAuthorUrl))))
        finalToken == OrElse(params.token, e.AEM_TOKEN)
        finalUsername == OrElse(params.username, e.AEM_USERNAME)
        finalPassword == OrElse(params.password, e.AEM_PASSWORD)
    IN  IF Truthy(finalToken)
        THEN [error |-> FALSE, authorUrl |-> finalAuthorUrl.v,
              credentials |-> [NoCredentials EXCEPT !.token = finalToken]]
        ELSE IF Truthy(finalUsername) /\ Truthy(finalPassword)
        THEN [error |-> FALSE, authorUrl |-> finalAuthorUrl.v,
              credentials |-> [NoCredentials EXCEPT !.username = finalUsername,
                                                    !.password = finalPassword]]
        ELSE [error |-> TRUE, authorUrl |-> <<>>, credentials |-> NoCredentials]

\* A plausible slip: the token is set as well whenever there is one.
GetAEMCredentialsBothSchemes(params, e) ==
    LET finalAuthorUrl ==
            OrElse(params.authorUrl,
                   OrElse(params.server, OrElse(e.AEM_AUTHOR_URL, Str(DefaultAuthorUrl))))
        finalToken == OrElse(params.token, e.AEM_TOKEN)
        finalUsername == OrElse(params.username, e.AEM_USERNAME)
        finalPassword == OrElse(params.password, e.AEM_PASSWORD)
        isAEMCloudService == Includes(finalAuthorUrl.v, CloudMarker)
    IN  IF Truthy(finalUsername) /\ Truthy(finalPassword)
           /\ (isAEMCloudService \/ ~Truthy(finalToken))
        THEN [error |-> FALSE, authorUrl |-> finalAuthorUrl.v,
              credentials |-> [token |-> IF Truthy(finalToken) THEN finalToken ELSE Undef,
                               username |-> finalUsername,
                               password |-> finalPassword]]
        ELSE IF Truthy(finalToken)
        THEN [error |-> FALSE, authorUrl |-> finalAuthorUrl.v,
              credentials |-> [NoCredentials EXCEPT !.token = finalToken]]
        ELSE [error |-> TRUE, authorUrl |-> <<>>, credentials |-> NoCredentials]

\* A plausible slip: a token given as a parameter is used whatever the
\* environment holds.
GetAEMCredentialsParamTokenWins(params, e) ==
    LET finalAuthorUrl ==
            OrElse(params.authorUrl,
                   OrElse(params.server, OrElse(e.AEM_AUTHOR_URL, Str(DefaultAuthorUrl))))
        finalToken == OrElse(params.token, e.AEM_TOKEN)
        finalUsername == OrElse(params.username, e.AEM_USERNAME)
        finalPassword == OrElse(params.password, e.AEM_PASSWORD)
        isAEMCloudService == Includes(finalAuthorUrl.v, CloudMarker)
    IN  IF Truthy(params.token)
        THEN [error |-> FALSE, authorUrl |-> finalAuthorUrl.v,
              credentials |-> [NoCredentials EXCEPT !.token = params.token]]
        ELSE IF Truthy(finalUsername) /\ Truthy(finalPassword)
                /\ (isAEMCloudService \/ ~Truthy(finalToken))
        THEN [error |-> FALSE, authorUrl |-> finalAuthorUrl.v,
              credentials |-> [NoCredentials EXCEPT !.username = finalUsername,
                                                    !.password = finalPassword]]
        ELSE IF Truthy(finalToken)
        THEN [error |-> FALSE, authorUrl |-> finalAuthorUrl.v,
              credentials |-> [NoCredentials EXCEPT !.token = finalToken]]
        ELSE [error |-> TRUE, authorUrl |-> <<>>, credentials |-> NoCredentials]

\* getAEMCredentials(params), reading process.env as e.  The result is
\* {error} or {authorUrl, credentials}; the fields the code leaves out are
\* Undef / <<>> here.
GetAEMCredentials(params, e) ==
    LET finalAuthorUrl ==
            OrElse(params.authorUrl,
                   OrElse(params.server, OrElse(e.AEM_AUTHOR_URL, Str(DefaultAuthorUrl))))
        finalToken == OrElse(params.token, e.AEM_TOKEN)
        finalUsername == OrElse(params.username, e.AEM_USERNAME)
        finalPassword == OrElse(params.password, e.AEM_PASSWORD)
        isAEMCloudService == Includes(finalAuthorUrl.v, CloudMarker)
    IN  IF Truthy(finalUsername) /\ Truthy(finalPassword)
           /\ (isAEMCloudService \/ ~Truthy(finalToken))
        THEN [error |-> FALSE, authorUrl |-> finalAuthorUrl.v,
              credentials |-> [NoCredentials EXCEPT !.username = finalUsername,
                                                    !.password = finalPassword]]
        ELSE IF Truthy(finalToken)
        THEN [error |-> FALSE, authorUrl |-> finalAuthorUrl.v,
              credentials |-> [NoCredentials EXCEPT !.token = finalToken]]
        ELSE [error |-> TRUE, authorUrl |-> <<>>, credentials |-> NoCredentials]

\* The scheme the AEMClientBase constructor sets up for a credentials object.
ClientAuthScheme(credentials) ==
    IF Truthy(credentials.token) THEN "bearer"
    ELSE IF Truthy(credentials.username) /\ Truthy(credentials.password) THEN "basic"
    ELSE "none"

NoEnv ==
    [AEM_AUTHOR_URL |-> Undef, AEM_TOKEN |-> Undef,
     AEM_USERNAME |-> Undef, AEM_PASSWORD |-> Undef]
NoCredParams ==
    [authorUrl |-> Undef, server |-> Undef, token |-> Undef,
     username |-> Undef, password |-> Undef]

CredParamInputs ==
    [authorUrl : {Undef, Str(<<>>), Str(CloudUrl), Str(OnPremUrl)},
     server    : {Undef, Str(LocalUrl)},
     token     : {Undef, Str(<<>>), Str(<<"param-token">>)},
     username  : {Undef, Str(<<>>), Str(<<"param-user">>)},
     password  : {Undef, Str(<<>>), Str(<<"param-pass">>)}]
CredEnvInputs ==
    [AEM_AUTHOR_URL : {Undef, Str(OnPremUrl), Str(CloudUrl)},
     AEM_TOKEN      : {Undef, Str(<<"env-token">>)},
     AEM_USERNAME   : {Undef, Str(<<"env-user">>)},
     AEM_PASSWORD   : {Undef, Str(<<"env-pass">>)}]

CredIdle ==
    /\ cpc = "off"
    /\ cParams = NoCredParams
    /\ cEnv = NoEnv
    /\ cOut = [error |-> TRUE, authorUrl |-> <<>>, credentials |-> NoCredentials]

CredInit ==
    /\ cpc = "input"
    /\ cParams \in CredParamInputs
    /\ cEnv \in CredEnvInputs
    /\ cOut = [error |-> TRUE, authorUrl |-> <<>>, credentials |-> NoCredentials]

CredResolve ==
    /\ cpc = "input"
    /\ cOut' = GetAEMCredentials(cParams, cEnv)
    /\ cpc' = "done"
    /\ UNCHANGED <<cParams, cEnv>>
    /\ UNCHANGED <<sanVars, mainVars, siteVars, callVars, invVars>>

(***************************************************************************)
(* Protocol adapter: main, handleMcpRequest and the request/response shims *)
(***************************************************************************)
\* An invocation's __ow_method: absent, a string, or a value of another type.
NoMethod == [type |-> "undefined", v |-> <<>>]
MethodStr(s) == [type |-> "string", v |-> s]
MethodNumber == [type |-> "number", v |-> <<>>]

\* A plausible slip: the method is compared as given, without lower-casing.
RouteOfCaseSensitive(method) ==
    IF method.type = "undefined" THEN "default"
    ELSE IF method.type # "string" THEN "throw"
    ELSE IF method.v = <<"g","e","t">> THEN "get"
    ELSE IF method.v = <<"o","p","t","i","o","n","s">> THEN "options"
    ELSE IF method.v = <<"p","o","s","t">> THEN "post"
    ELSE "default"

\* switch (params.__ow_method?.toLowerCase()): the case taken, or "throw"
\* when the value has no toLowerCase method (a TypeError).
RouteOf(method) ==
    IF method.type = "undefined" THEN "default"
    ELSE IF method.type # "string" THEN "throw"
    ELSE LET m == ToLowerCase(method.v)
         IN  IF m = <<"g","e","t">> THEN "get"
             ELSE IF m = <<"o","p","t","i","o","n","s">> THEN "options"
             ELSE IF m = <<"p","o","s","t">> THEN "post"
             ELSE "default"

\* A response body: kind tells which payload it is; jsonrpc, code and id are
\* those of a JSON-RPC error envelope and empty otherwise.
PlainBody(kind) == [kind |-> kind, jsonrpc |-> "", code |-> 0, id |-> ""]
ErrorEnvelope(code) ==
    [kind |-> "jsonrpc-error", jsonrpc |-> "2.0", code |-> code, id |-> "null"]

HandleHealthCheck ==
    [statusCode |-> 200, headers |-> "cors+json", body |-> PlainBody("health")]
HandleOptionsRequest ==
    [statusCode |-> 200, headers |-> "cors", body |-> PlainBody("empty")]
MethodNotAllowed ==
    [statusCode |-> 405, headers |-> "origin+json", body |-> ErrorEnvelope(-32000)]
LoggerCreationError ==
    [statusCode |-> 500, headers |-> "json", body |-> PlainBody("logger-error")]
\* A plausible slip: the catch of main answers with the routing error code.
MainCatchWrongCode ==
    [statusCode |-> 500, headers |-> "origin+json", body |-> ErrorEnvelope(-32000)]
\* The response built by the catch of main.
MainCatchResponse ==
    [statusCode |-> 500, headers |-> "origin+json", body |-> ErrorEnvelope(-32603)]
NoResponse ==
    [statusCode |-> 0, headers |-> "", body |-> PlainBody("none")]

\* An invocation's __ow_body: absent, a string, or an already-parsed value.
\* For a string, b64 is the JSON value its base64 decoding parses to and
\* direct the value the string itself parses to ("invalid": a SyntaxError).
NoBody == [type |-> "undefined", b64 |-> "invalid", direct |-> "invalid", v |-> "null"]
BodyString(b64, direct) == [type |-> "string", b64 |-> b64, direct |-> direct, v |-> "null"]
BodyObject(v) == [type |-> "object", b64 |-> "invalid", direct |-> "invalid", v |-> v]
EmptyBodyString == [type |-> "empty-string", b64 |-> "invalid", direct |-> "invalid", v |-> "null"]

\* parseRequestBody(params): the value returned, or "throw".
ParseRequestBody(body) ==
    IF body.type \in {"undefined", "empty-string"} THEN "null"
    ELSE IF body.type = "string"
    THEN IF body.b64 # "invalid" THEN body.b64
         ELSE IF body.direct # "invalid" THEN body.direct
         ELSE "throw"
    ELSE body.v

\* The response shim as createCompatibleResponse returns it.
CreateCompatibleResponse ==
    [statusCode |-> 200, body |-> <<>>, headersSent |-> FALSE, ended |-> FALSE]

MethodInputs ==
    {NoMethod, MethodNumber, MethodStr(<<>>),
     MethodStr(<<"g","e","t">>), MethodStr(<<"G","E","T">>), MethodStr(<<"G","e","t">>),
     MethodStr(<<"o","p","t","i","o","n","s">>), MethodStr(<<"O","P","T","I","O","N","S">>),
     MethodStr(<<"p","o","s","t">>), MethodStr(<<"P","O","S","T">>), MethodStr(<<"P","o","s","T">>),
     MethodStr(<<"p","u","t">>), MethodStr(<<"D","E","L","E","T","E">>),
     MethodStr(<<"p","o","s","t"," ">>)}
BodyInputs ==
    {NoBody, EmptyBodyString, BodyObject("request"),
     BodyString("request", "invalid"), BodyString("invalid", "request"),
     BodyString("invalid", "invalid")}
LogLevelInputs == {Undef, Str(<<"debug">>)}

\* What the transport answers with, and the shim operation it finishes with.
TransportStatuses == {200, 202, 400, 406}
FinishOps == {"end", "json", "send", "write"}

MainIdle ==
    /\ mpc = "off"
    /\ mParams = [method |-> NoMethod, body |-> NoBody, LOG_LEVEL |-> Undef]
    /\ logger = "null"
    /\ delegated = FALSE
    /\ raised = FALSE
    /\ server = "none"
    /\ transport = "none"
    /\ res = CreateCompatibleResponse
    /\ response = NoResponse

MainInit ==
    /\ mpc = "start"
    /\ mParams \in [method : MethodInputs, body : BodyInputs, LOG_LEVEL : LogLevelInputs]
    /\ logger = "null"
    /\ delegated = FALSE
    /\ raised = FALSE
    /\ server = "none"
    /\ transport = "none"
    /\ res = CreateCompatibleResponse
    /\ response = NoResponse

Return(r) == mpc' = "returned" /\ response' = r

\* main, lines 330-342: the logger is created (Core.Logger may throw).
MainCreateLogger ==
    /\ mpc = "start"
    /\ \E ok \in BOOLEAN :
          IF ok
          THEN /\ logger' = (IF Truthy(mParams.LOG_LEVEL) THEN "debug" ELSE "info")
               /\ mpc' = "route"
               /\ UNCHANGED response
          ELSE /\ Return(LoggerCreationError)
               /\ UNCHANGED logger
    /\ UNCHANGED <<mParams, delegated, raised, server, transport, res>>
    /\ UNCHANGED <<sanVars, credVars, siteVars, callVars, invVars>>

\* main, lines 344-375: the switch on the lower-cased method.  The post case
\* enters handleMcpRequest, whose first statement creates the server
\* (createMcpServer, outside its try block).
MainRoute ==
    /\ mpc = "route"
    /\ LET route == RouteOf(mParams.method)
       IN  CASE route = "get" ->
                  Return(HandleHealthCheck) /\ UNCHANGED <<delegated, raised>>
             [] route = "options" ->
                  Return(HandleOptionsRequest) /\ UNCHANGED <<delegated, raised>>
             [] route = "post" ->
                  mpc' = "createServer" /\ delegated' = TRUE
                  /\ UNCHANGED <<response, raised>>
             [] route = "throw" ->
                  mpc' = "mainCatch" /\ UNCHANGED <<response, delegated, raised>>
             [] OTHER ->
                  Return(MethodNotAllowed) /\ UNCHANGED <<delegated, raised>>
    /\ UNCHANGED <<mParams, logger, server, transport, res>>
    /\ UNCHANGED <<sanVars, credVars, siteVars, callVars, invVars>>

\* handleMcpRequest, line 229: createMcpServer(); an exception here is
\* outside the try block and reaches the catch of main directly.
HmrCreateServer ==
    /\ mpc = "createServer"
    /\ \E ok \in BOOLEAN :
          IF ok
          THEN server' = "created" /\ mpc' = "createRequest" /\ UNCHANGED raised
          ELSE mpc' = "mainCatch" /\ raised' = TRUE /\ UNCHANGED server
    /\ UNCHANGED <<mParams, logger, delegated, transport, res, response>>
    /\ UNCHANGED <<sanVars, credVars, siteVars, callVars, invVars>>

\* handleMcpRequest, lines 236-237: the request and response shims.
HmrCreateRequest ==
    /\ mpc = "createRequest"
    /\ IF ParseRequestBody(mParams.body) = "throw"
       THEN mpc' = "hmrCatch" /\ raised' = TRUE /\ UNCHANGED res
       ELSE mpc' = "createTransport" /\ res' = CreateCompatibleResponse
            /\ UNCHANGED raised
    /\ UNCHANGED <<mParams, logger, delegated, server, transport, response>>
    /\ UNCHANGED <<sanVars, credVars, siteVars, callVars, invVars>>

\* handleMcpRequest, lines 240-243: new StreamableHTTPServerTransport(...)
HmrCreateTransport ==
    /\ mpc = "createTransport"
    /\ \E ok \in BOOLEAN :
          IF ok
          THEN transport' = "created" /\ mpc' = "connect" /\ UNCHANGED raised
          ELSE mpc' = "hmrCatch" /\ raised' = TRUE /\ UNCHANGED transport
    /\ UNCHANGED <<mParams, logger, delegated, server, res, response>>
    /\ UNCHANGED <<sanVars, credVars, siteVars, callVars, invVars>>

\* handleMcpRequest, line 246: await server.connect(transport)
HmrConnect ==
    /\ mpc = "connect"
    /\ \E ok \in BOOLEAN :
          IF ok
          THEN server' = "connected" /\ transport' = "connected"
               /\ mpc' = "handleRequest" /\ UNCHANGED raised
          ELSE mpc' = "hmrCatch" /\ raised' = TRUE /\ UNCHANGED <<server, transport>>
    /\ UNCHANGED <<mParams, logger, delegated, res, response>>
    /\ UNCHANGED <<sanVars, credVars, siteVars, callVars, invVars>>

\* handleMcpRequest, lines 249-261: await transport.handleRequest(req, res,
\* req.body).  The transport writes its answer into the shim (writeHead,
\* then one finishing operation) or throws.  Only res.end is overridden to
\* resolve responseComplete.
HmrHandleRequest ==
    /\ mpc = "handleRequest"
    /\ \/ \E st \in TransportStatuses, fin \in FinishOps :
            /\ res' = [statusCode |-> st, body |-> <<"answer">>,
                       headersSent |-> TRUE, ended |-> (fin = "end")]
            /\ mpc' = "awaitComplete"
            /\ UNCHANGED raised
       \/ /\ mpc' = "hmrCatch"
          /\ raised' = TRUE
          /\ UNCHANGED res
    /\ UNCHANGED <<mParams, logger, delegated, server, transport, response>>
    /\ UNCHANGED <<sanVars, credVars, siteVars, callVars, invVars>>

\* handleMcpRequest, lines 264-276: await responseComplete, which resolves
\* only after res.end was called; res.on('close', ...) registers nothing
\* (the shim's on is a no-op); the captured result is returned.
HmrAwaitComplete ==
    /\ mpc = "awaitComplete"
    /\ res.ended
    /\ Return([statusCode |-> res.statusCode, headers |-> "cors+set",
               body |-> PlainBody("captured")])
    /\ UNCHANGED <<mParams, logger, delegated, raised, server, transport, res>>
    /\ UNCHANGED <<sanVars, credVars, siteVars, callVars, invVars>>

\* handleMcpRequest, lines 278-318: the catch block.  Its first statement
\* reads req.body, but req is declared with const inside the try block and
\* is not in scope here: a ReferenceError is thrown before the cleanup and
\* before the block's own 500 response, and reaches the catch of main.
HmrCatch ==
    /\ mpc = "hmrCatch"
    /\ mpc' = "mainCatch"
    /\ UNCHANGED <<mParams, logger, delegated, raised, server, transport, res, response>>
    /\ UNCHANGED <<sanVars, credVars, siteVars, callVars, invVars>>

\* main, lines 377-399: the catch block.
MainCatch ==
    /\ mpc = "mainCatch"
    /\ Return(MainCatchResponse)
    /\ UNCHANGED <<mParams, logger, delegated, raised, server, transport, res>>
    /\ UNCHANGED <<sanVars, credVars, siteVars, callVars, invVars>>

MainNext ==
    \/ MainCreateLogger
    \/ MainRoute
    \/ HmrCreateServer
    \/ HmrCreateRequest
    \/ HmrCreateTransport
    \/ HmrConnect
    \/ HmrHandleRequest
    \/ HmrCatch
    \/ HmrAwaitComplete
    \/ MainCatch

(***************************************************************************)
(* Site provisioning: AEMMicrositeClient and the two site tool handlers    *)
(***************************************************************************)
Slash == <<"/">>
ContentPath == <<"/","c","o","n","t","e","n","t">>
SitesPath == <<"/","c","o","n","t","e","n","t","/","e","u">>

TestSiteTitle == <<"T","e","s","t"," ","S","i","t","e">>
TestSitePath ==
    <<"/","c","o","n","t","e","n","t","/","t","e","s","t","-","s","i","t","e">>
ShopName == <<"S","h","o","p","!">>
ShopPath == <<"/","c","o","n","t","e","n","t","/","s","h","o","p","-">>

\* Error messages are sequences of tokens; the status code is one token.
StatusText(st) ==
    CASE st = 200 -> "200" [] st = 201 -> "201" [] st = 204 -> "204"
      [] st = 401 -> "401" [] st = 403 -> "403" [] st = 404 -> "404"
      [] st = 409 -> "409" [] st = 500 -> "500" [] OTHER -> "?"

\* The message of the error axios throws: status 0 stands for a request
\* that got no response (a network error or the 30 s timeout).
AxiosMessage(st) ==
    IF st = 0 THEN <<"Network Error">>
    ELSE <<"Request failed with status code ", StatusText(st)>>

\* axios' default validateStatus
Is2xx(st) == st >= 200 /\ st < 300

IsPrefix(p, q) == Len(p) <= Len(q) /\ SubSeq(q, 1, Len(p)) = p

\* The remote repository: what a completed request leaves behind.
RepoAfterCreate(r, path, st) == IF Is2xx(st) THEN r \cup {path} ELSE r
RepoAfterDelete(r, path, st) ==
    IF Is2xx(st) THEN {q \in r : q # path /\ ~IsPrefix(path \o Slash, q)} ELSE r

\* The answers the repository can give.
CreateSiteStatuses == {201, 401, 409, 500, 0}
\* Whether the body of a failed create can say "already exists": any error
\* response can, a missing response cannot.
CreateSiteBodies(st) == IF st = 0 \/ Is2xx(st) THEN {FALSE} ELSE BOOLEAN
CreatePageStatuses == {201, 500}
DeleteStatuses(r, path) ==
    (IF path \in r THEN {204} ELSE {404}) \cup {403, 500, 0}

DefaultPages == << <<"m","a","i","n">>, <<"a","b","o","u","t">>,
                   <<"c","o","n","t","a","c","t">> >>
PageNamePool == << <<"h","o","m","e">>, <<"n","e","w","s">>, <<"f","a","q">>,
                   <<"t","e","a","m">> >>
MaxPages == 2

\* pageName.charAt(0).toUpperCase() + pageName.slice(1)
Capitalize(s) == IF s = <<>> THEN <<>> ELSE <<ToUpperChar(Head(s))>> \o Tail(s)

NoArgs ==
    [siteName |-> Undef, siteTitle |-> Undef, parentPath |-> Undef,
     pages |-> [def |-> FALSE, v |-> <<>>], overwrite |-> FALSE,
     sitePath |-> <<>>, confirm |-> FALSE, auth |-> NoCredParams]

NoLoc ==
    [sitePath |-> <<>>, existed |-> FALSE, deleted |-> FALSE, deleteError |-> <<>>,
     i |-> 1, createdPages |-> <<>>]

NoSiteResult == [status |-> "none", success |-> FALSE, sitePath |-> <<>>,
                 siteName |-> <<>>, message |-> <<>>]
NoMsResult == [status |-> "none", success |-> FALSE, sitePath |-> <<>>,
               pages |-> <<>>, message |-> <<>>]
NoToolResult == [kind |-> "none", message |-> <<>>, siteExists |-> FALSE]

SiteNameInputs == {Undef, Str(<<>>), Str(<<"x">>), Str(ShopName)}
SiteTitleInputs == {Undef, Str(<<>>), Str(TestSiteTitle)}
ParentPathInputs == {Undef, Str(SitesPath)}
PagesInputs ==
    {[def |-> FALSE, v |-> <<>>]}
        \cup {[def |-> TRUE, v |-> SubSeq(PageNamePool, 1, k)] : k \in 0..MaxPages}
AuthInputs == {NoCredParams, [NoCredParams EXCEPT !.token = Str(<<"param-token">>)]}
EnvInputs == {NoEnv, [NoEnv EXCEPT !.AEM_USERNAME = Str(<<"env-user">>),
                                   !.AEM_PASSWORD = Str(<<"env-pass">>)]}

\* The pages of a call: the destructuring default applies to undefined.
PagesOf(a) == IF a.pages.def THEN a.pages.v ELSE DefaultPages
ParentOf(a) == IF a.parentPath.def THEN a.parentPath.v ELSE ContentPath

\* createMicrosite, lines 558-561, and the handler, lines 308-312: the
\* site name handed on when none is given and there is a title.
MicrositeSiteName(a) ==
    IF ~Truthy(a.siteName) /\ Truthy(a.siteTitle)
    THEN Str(DeriveSiteName(a.siteTitle.v))
    ELSE a.siteName

\* createSite, lines 500-503 (siteTitle is truthy there)
CreateSiteName(siteName, siteTitle) ==
    IF ~Truthy(siteName) THEN DeriveSiteName(siteTitle.v) ELSE siteName.v

\* A plausible slip: only an absent title is rejected, an empty one is not.
SiteTitleMissingOnlyUndefined(siteTitle) == ~siteTitle.def

\* createSite, line 496: if (!siteTitle)
SiteTitleMissing(siteTitle) == ~Truthy(siteTitle)

\* A plausible slip: the parent path is left out of the site path.
SitePathWithoutParent(parentPath, name) == Slash \o Sanitize(name)

\* `${parentPath}/${sanitizedSiteName}`
SitePathOf(parentPath, name) == parentPath \o Slash \o Sanitize(name)

SiteIdle ==
    /\ pc = "off"
    /\ op = "none"
    /\ args = NoArgs
    /\ env = NoEnv
    /\ repo = {}
    /\ log = <<>>
    /\ loc = NoLoc
    /\ siteResult = NoSiteResult
    /\ msResult = NoMsResult
    /\ toolResult = NoToolResult

SiteInit ==
    /\ pc = "idle"
    /\ op = "none"
    /\ args = NoArgs
    /\ env \in EnvInputs
    /\ repo \in SUBSET {TestSitePath, TestSitePath \o Slash \o PageNamePool[1], ShopPath}
    /\ log = <<>>
    /\ loc = NoLoc
    /\ siteResult = NoSiteResult
    /\ msResult = NoMsResult
    /\ toolResult = NoToolResult

\* A step of a call as the repository sees it; exists says whether the body
\* of the response carries an "already exists" marker.
ResponseEvent(kind, via, path, st, exists) ==
    [kind |-> kind, via |-> via, path |-> path, status |-> st, exists |-> exists]
Event(kind, via, path, st) == ResponseEvent(kind, via, path, st, FALSE)

\* A call starts.
Begin(o, a) ==
    /\ pc = "idle"
    /\ op' = o
    /\ args' = a
    /\ UNCHANGED <<env, repo, log>>

\* The call is over: its result is left in siteResult / msResult / toolResult.
Done == pc' = "done"

ToolFailure(prefix, message) ==
    [kind |-> "failure", message |-> prefix \o message, siteExists |-> FALSE]

\* A plausible slip: the status 409 is not looked for in the message.
SiteExistsWithout409(message) ==
    Includes(message, <<"already exists">>) \/ Includes(message, <<"Site already exists">>)

\* aem-create-microsite, catch, lines 399-403: siteExists
SiteExists(message) ==
    /\ message # <<>>
    /\ \/ Includes(message, <<"already exists">>)
       \/ Includes(message, <<"409">>)
       \/ Includes(message, <<"Site already exists">>)

\* aem-create-microsite, catch, lines 397-448: the failure text, with the
\* "Site Already Exists" remediation when siteExists.
CreateMicrositeFailure(message) ==
    [kind |-> "failure",
     message |-> <<"Failed to create microsite. Error: ">> \o message,
     siteExists |-> SiteExists(message)]

\* An error leaves createSite: createSite rethrows it with its prefix,
\* createMicrosite wraps it again, and the handler turns it into a text result.
FailCreateSite(message) ==
    LET m1 == <<"Failed to create site: ">> \o message
        m2 == <<"Failed to create microsite: ">> \o m1
    IN  /\ siteResult' = [NoSiteResult EXCEPT !.status = "error", !.message = m1]
        /\ msResult' = IF op = "createSite" THEN msResult
                       ELSE [NoMsResult EXCEPT !.status = "error", !.message = m2]
        /\ toolResult' = IF op = "tool-create"
                         THEN CreateMicrositeFailure(m2)
                         ELSE toolResult
        /\ Done

\* createMicrosite returns {...siteResult, pages: createdPages}; the handler
\* reports the success.
FinishMicrosite(site, created) ==
    /\ msResult' = [status |-> "ok", success |-> site.success, sitePath |-> site.sitePath,
                    pages |-> created, message |-> <<"Microsite created">>]
    /\ toolResult' = IF op = "tool-create"
                     THEN [kind |-> "success", message |-> <<"Microsite Created Successfully">>, siteExists |-> FALSE]
                     ELSE toolResult
    /\ Done

\* client.createSite(siteConfig) is called directly.
CallCreateSite ==
    /\ \E n \in SiteNameInputs, ti \in SiteTitleInputs, pp \in ParentPathInputs :
          Begin("createSite", [NoArgs EXCEPT !.siteName = n, !.siteTitle = ti,
                                             !.parentPath = pp])
    /\ pc' = "createSite"
    /\ UNCHANGED <<loc, siteResult, msResult, toolResult>>
    /\ UNCHANGED <<sanVars, credVars, mainVars, callVars, invVars>>

\* client.createMicrosite(micrositeConfig) is called directly.
CallCreateMicrosite ==
    /\ \E n \in SiteNameInputs, ti \in SiteTitleInputs, pp \in ParentPathInputs,
          pg \in PagesInputs :
          Begin("createMicrosite", [NoArgs EXCEPT !.siteName = n, !.siteTitle = ti,
                                                  !.parentPath = pp, !.pages = pg])
    /\ pc' = "createSite"
    /\ UNCHANGED <<loc, siteResult, msResult, toolResult>>
    /\ UNCHANGED <<sanVars, credVars, mainVars, callVars, invVars>>

\* The aem-create-microsite handler up to its first remote call (lines
\* 286-317): credentials, site path, and the choice of the overwrite path.
\* siteTitle is a string there (the tool's schema requires one).
ToolCreateMicrosite ==
    /\ \E n \in SiteNameInputs, ti \in SiteTitleInputs \ {Undef}, pp \in ParentPathInputs,
          pg \in PagesInputs, ow \in BOOLEAN, au \in AuthInputs :
          LET a == [NoArgs EXCEPT !.siteName = n, !.siteTitle = ti, !.parentPath = pp,
                                  !.pages = pg, !.overwrite = ow, !.auth = au]
              authResult == GetAEMCredentials(au, env)
              finalSiteName == MicrositeSiteName(a)
          IN  /\ Begin("tool-create", a)
              /\ UNCHANGED <<siteResult, msResult>>
              /\ IF authResult.error
                 THEN /\ toolResult' = [kind |-> "auth-required", message |-> <<>>, siteExists |-> FALSE]
                      /\ Done
                      /\ UNCHANGED loc
                 ELSE IF ~finalSiteName.def
                 THEN \* finalSiteName.toLowerCase() on undefined: a TypeError
                      /\ toolResult' = CreateMicrositeFailure(<<"Cannot read properties of undefined">>)
                      /\ Done
                      /\ UNCHANGED loc
                 ELSE /\ loc' = [loc EXCEPT
                              !.sitePath = SitePathOf(ParentOf(a), finalSiteName.v),
                              !.existed = SitePathOf(ParentOf(a), finalSiteName.v) \in repo]
                      /\ pc' = IF ow THEN "structuredDelete" ELSE "createSite"
                      /\ UNCHANGED toolResult
    /\ UNCHANGED <<sanVars, credVars, mainVars, callVars, invVars>>

\* A plausible slip: the low-level delete follows the structured one always.
AfterStructuredDeleteAlwaysFallback(st) == "directDelete"

\* Handler, lines 319-326: the low-level delete is in the catch block of the
\* structured one, so it follows only a structured delete that has failed.
AfterStructuredDelete(st) == IF Is2xx(st) THEN "settle" ELSE "directDelete"

\* Handler, lines 319-324: await aemClient.deleteSite(sitePath)
StructuredDelete ==
    /\ pc = "structuredDelete"
    /\ \E st \in DeleteStatuses(repo, loc.sitePath) :
          /\ log' = Append(log, Event("DELETE", "deleteSite", loc.sitePath, st))
          /\ repo' = RepoAfterDelete(repo, loc.sitePath, st)
          /\ loc' = IF Is2xx(st) THEN [loc EXCEPT !.deleted = TRUE]
                     ELSE [loc EXCEPT !.deleteError =
                               <<"Failed to delete site: ">> \o AxiosMessage(st)]
          /\ pc' = AfterStructuredDelete(st)
    /\ UNCHANGED <<op, args, env, siteResult, msResult, toolResult>>
    /\ UNCHANGED <<sanVars, credVars, mainVars, callVars, invVars>>

\* A plausible slip: only a delete that removed something counts.
DirectDeleteDeletedOnlyRemoved(st, deleteError) == st = 200 \/ st = 204

\* Handler, lines 326-353: whether the low-level delete leaves deleted true.
\* A status below 500 resolves (validateStatus); otherwise axios throws and
\* only the message of the first error can say "not found".
DirectDeleteDeleted(st, deleteError) ==
    IF st # 0 /\ st < 500
    THEN st = 200 \/ st = 204 \/ st = 404
    ELSE Includes(deleteError, <<"404">>) \/ Includes(deleteError, <<"not found">>)

\* Handler, lines 325-359: the low-level delete at the same path
DirectDelete ==
    /\ pc = "directDelete"
    /\ \E st \in DeleteStatuses(repo, loc.sitePath) :
          /\ log' = Append(log, Event("DELETE", "direct", loc.sitePath, st))
          /\ repo' = RepoAfterDelete(repo, loc.sitePath, st)
          /\ loc' = [loc EXCEPT !.deleted = DirectDeleteDeleted(st, loc.deleteError)]
          /\ pc' = IF DirectDeleteDeleted(st, loc.deleteError) THEN "settle" ELSE "createSite"
    /\ UNCHANGED <<op, args, env, siteResult, msResult, toolResult>>
    /\ UNCHANGED <<sanVars, credVars, mainVars, callVars, invVars>>

\* Handler, lines 356-359: the 500 ms delay after a delete
Settle ==
    /\ pc = "settle"
    /\ log' = Append(log, Event("SETTLE", "handler", loc.sitePath, 0))
    /\ pc' = "createSite"
    /\ UNCHANGED <<op, args, env, repo, loc, siteResult, msResult, toolResult>>
    /\ UNCHANGED <<sanVars, credVars, mainVars, callVars, invVars>>

\* The site name createSite is given by its caller.
SiteNameGiven == IF op = "createSite" THEN args.siteName ELSE MicrositeSiteName(args)

\* createSite is entered: a call, not a request.
CreateSiteCalled == Event("CALL", "createSite", <<>>, 0)

\* createSite (lines 484-542), reached directly or through createMicrosite
\* (lines 548-569): validation, then one POST at the site path.
CreateSite ==
    /\ pc = "createSite"
    /\ UNCHANGED <<op, args, env>>
    /\ IF SiteTitleMissing(args.siteTitle)
       THEN /\ FailCreateSite(<<"siteTitle is required">>)
            /\ log' = Append(log, CreateSiteCalled)
            /\ UNCHANGED <<repo, loc>>
       ELSE LET name == CreateSiteName(SiteNameGiven, args.siteTitle)
                sitePath == SitePathOf(ParentOf(args), name)
                site == [status |-> "ok", success |-> TRUE, sitePath |-> sitePath,
                         siteName |-> Sanitize(name),
                         message |-> <<"Site created successfully">>]
            IN  \E st \in CreateSiteStatuses : \E exists \in CreateSiteBodies(st) :
                  /\ log' = log \o <<CreateSiteCalled,
                                      ResponseEvent("POST", "createSite", sitePath, st, exists)>>
                  /\ repo' = RepoAfterCreate(repo, sitePath, st)
                  /\ IF ~Is2xx(st)
                     THEN FailCreateSite(AxiosMessage(st)) /\ UNCHANGED loc
                     ELSE /\ siteResult' = site
                          /\ IF op = "createSite"
                             THEN Done /\ UNCHANGED <<loc, msResult, toolResult>>
                             ELSE IF PagesOf(args) = <<>>
                             THEN FinishMicrosite(site, <<>>) /\ UNCHANGED loc
                             ELSE /\ pc' = "createPage"
                                  /\ loc' = [loc EXCEPT !.i = 1, !.createdPages = <<>>]
                                  /\ UNCHANGED <<msResult, toolResult>>
    /\ UNCHANGED <<sanVars, credVars, mainVars, callVars, invVars>>

\* A plausible slip: the page is listed whether or not its creation succeeded.
CreatedPagesAfterAlwaysListed(createdPages, pageName, st) == Append(createdPages, pageName)

\* createMicrosite, lines 574-591: createdPages after one createPage call;
\* a failure is caught and logged, and the page is not listed.
CreatedPagesAfter(createdPages, pageName, st) ==
    IF Is2xx(st) THEN Append(createdPages, pageName) ELSE createdPages

\* createMicrosite, lines 573-598: one pass of the loop over pages, that is
\* one createPage call (lines 674-745); after the last one the call returns.
CreatePage ==
    /\ pc = "createPage"
    /\ LET pageName == PagesOf(args)[loc.i]
           pagePath == siteResult.sitePath \o Slash \o pageName
       IN  \E st \in CreatePageStatuses :
             LET created == CreatedPagesAfter(loc.createdPages, pageName, st)
             IN  /\ log' = Append(log, Event("POST", "createPage", pagePath, st))
                 /\ repo' = RepoAfterCreate(repo, pagePath, st)
                 /\ loc' = [loc EXCEPT !.i = loc.i + 1, !.createdPages = created]
                 /\ IF loc.i = Len(PagesOf(args))
                    THEN FinishMicrosite(siteResult, created)
                    ELSE pc' = "createPage" /\ UNCHANGED <<msResult, toolResult>>
    /\ UNCHANGED <<op, args, env, siteResult>>
    /\ UNCHANGED <<sanVars, credVars, mainVars, callVars, invVars>>

\* A plausible slip: the confirmation is not looked at.
DeletionCancelledNever(confirm) == FALSE

\* aem-delete-site, line 644: if (!confirm)
DeletionCancelled(confirm) == ~confirm

\* The aem-delete-site handler up to its remote call (lines 643-664)
ToolDeleteSite ==
    /\ \E sp \in {TestSitePath, ShopPath}, cf \in BOOLEAN, au \in AuthInputs :
          LET a == [NoArgs EXCEPT !.sitePath = sp, !.confirm = cf, !.auth = au]
          IN  /\ Begin("tool-delete", a)
              /\ UNCHANGED <<siteResult, msResult>>
              /\ IF DeletionCancelled(cf)
                 THEN /\ toolResult' = [kind |-> "cancelled", message |-> <<"Deletion Cancelled">>, siteExists |-> FALSE]
                      /\ Done
                      /\ UNCHANGED loc
                 ELSE IF GetAEMCredentials(au, env).error
                 THEN /\ toolResult' = [kind |-> "auth-required", message |-> <<>>, siteExists |-> FALSE]
                      /\ Done
                      /\ UNCHANGED loc
                 ELSE /\ loc' = [loc EXCEPT !.sitePath = sp, !.existed = sp \in repo]
                      /\ pc' = "deleteSite"
                      /\ UNCHANGED toolResult
    /\ UNCHANGED <<sanVars, credVars, mainVars, callVars, invVars>>

\* aem-delete-site, lines 665-680: await aemClient.deleteSite(sitePath)
DeleteSite ==
    /\ pc = "deleteSite"
    /\ \E st \in DeleteStatuses(repo, loc.sitePath) :
          /\ log' = Append(log, Event("DELETE", "deleteSite", loc.sitePath, st))
          /\ repo' = RepoAfterDelete(repo, loc.sitePath, st)
          /\ toolResult' =
                IF Is2xx(st) THEN [kind |-> "deleted", message |-> <<"Site deleted">>, siteExists |-> FALSE]
                ELSE ToolFailure(<<"Failed to delete site. Error: ">>,
                                 <<"Failed to delete site: ">> \o AxiosMessage(st))
          /\ Done
    /\ UNCHANGED <<op, args, env, loc, siteResult, msResult>>
    /\ UNCHANGED <<sanVars, credVars, mainVars, callVars, invVars>>

SiteNext ==
    \/ CallCreateSite
    \/ CallCreateMicrosite
    \/ ToolCreateMicrosite
    \/ StructuredDelete
    \/ DirectDelete
    \/ Settle
    \/ CreateSite
    \/ CreatePage
    \/ ToolDeleteSite
    \/ DeleteSite

(***************************************************************************)
(* Specifications: one per component, the others idle                      *)
(***************************************************************************)
SanNext == SanApply \/ SanReapply
CredNext == CredResolve

InitSanitize == SanInit /\ CredIdle /\ MainIdle /\ SiteIdle /\ CallIdle /\ InvIdle
InitCredentials == SanIdle /\ CredInit /\ MainIdle /\ SiteIdle /\ CallIdle /\ InvIdle
InitMain == SanIdle /\ CredIdle /\ MainInit /\ SiteIdle /\ CallIdle /\ InvIdle
InitSite == SanIdle /\ CredIdle /\ MainIdle /\ SiteInit /\ CallIdle /\ InvIdle

SpecSanitize == InitSanitize /\ [][SanNext]_vars
SpecCredentials == InitCredentials /\ [][CredNext]_vars
SpecMain == InitMain /\ [][MainNext]_vars
SpecSite == InitSite /\ [][SiteNext]_vars

(***************************************************************************)
(* Properties of the protocol adapter                                      *)
(***************************************************************************)
\* The method compared case-insensitively with a lower-case name
MethodIs(name) ==
    mParams.method.type = "string" /\ ToLowerCase(mParams.method.v) = name
IsGet == MethodIs(<<"g","e","t">>)
IsOptions == MethodIs(<<"o","p","t","i","o","n","s">>)
IsPost == MethodIs(<<"p","o","s","t">>)
Routed == mpc \notin {"start", "route"}

\* What C1 says of an invocation that main has routed.
RoutingOutcome ==
    /\ IsGet => mpc = "returned" /\ response = HandleHealthCheck
    /\ IsOptions =>
         /\ mpc = "returned"
         /\ response.statusCode = 200
         /\ response.headers = "cors"
         /\ response.body.kind = "empty"
    /\ IsPost => delegated
    /\ ~(IsGet \/ IsOptions \/ IsPost) =>
         /\ mpc = "returned"
         /\ response.statusCode = 405
         /\ response.body.kind = "jsonrpc-error"
         /\ response.body.code = -32000
    /\ delegated => IsPost

\* C1 as stated: main routes only on the invocation's method, compared
\* case-insensitively: GET gives 200 with the health payload, OPTIONS gives
\* 200 with the CORS headers and an empty body, POST is delegated to the
\* protocol exchange, and every other method value gives 405 with a JSON-RPC
\* error body whose code is -32000.
C1_RoutesOnMethodOnly == Routed => RoutingOutcome

\* C1 amended: the same routing, for an invocation whose logger was created
\* and whose method is a string or absent.  (When Core.Logger throws, main
\* answers 500 before it looks at the method; a method value that is not a
\* string has no toLowerCase and ends in the catch of main, 500 / -32603.)
C1_RoutesOnMethodWhenLoggerCreated ==
    (Routed /\ logger # "null" /\ mParams.method.type \in {"string", "undefined"})
        => RoutingOutcome

\* An upper-case GET has been answered with the health payload.
C1_Witness ==
    /\ mpc = "returned"
    /\ mParams.method = MethodStr(<<"G","E","T">>)
    /\ response = HandleHealthCheck

\* C2: for a POST invocation, a request body that cannot be parsed, or any
\* exception raised while the exchange is set up or driven, makes main
\* return status 500 with a JSON-RPC error envelope (jsonrpc "2.0", code
\* -32603, id null); the exception never leaves main: once raised, control
\* is in a catch block or main has returned.
C2_ExchangeFailureGives500Envelope ==
    /\ (raised \/ (mpc = "returned" /\ delegated
                     /\ ParseRequestBody(mParams.body) = "throw"))
         => /\ mpc \in {"hmrCatch", "mainCatch", "returned"}
            /\ mpc = "returned" =>
                 /\ response.statusCode = 500
                 /\ response.body.kind = "jsonrpc-error"
                 /\ response.body.jsonrpc = "2.0"
                 /\ response.body.code = -32603
                 /\ response.body.id = "null"
    /\ raised => delegated

\* A POST whose body could not be parsed has been answered.
C2_Witness ==
    /\ mpc = "returned"
    /\ raised
    /\ server = "created"
    /\ transport = "none"
    /\ ParseRequestBody(mParams.body) = "throw"
    /\ response.statusCode = 500

(***************************************************************************)
(* Properties of the credential resolver                                   *)
(***************************************************************************)
\* A value is available from the parameter or else from the environment.
Available(param, envValue) == Truthy(param) \/ Truthy(envValue)
ValueOf(param, envValue) == IF Truthy(param) THEN param ELSE envValue
EndpointOf ==
    IF Truthy(cParams.authorUrl) THEN cParams.authorUrl.v
    ELSE IF Truthy(cParams.server) THEN cParams.server.v
    ELSE IF Truthy(cEnv.AEM_AUTHOR_URL) THEN cEnv.AEM_AUTHOR_URL.v
    ELSE DefaultAuthorUrl
HasToken == Available(cParams.token, cEnv.AEM_TOKEN)
HasUserAndPassword ==
    /\ Available(cParams.username, cEnv.AEM_USERNAME)
    /\ Available(cParams.password, cEnv.AEM_PASSWORD)
MatchesCloudPattern == Includes(EndpointOf, CloudMarker)

\* C3: with token, username and password each taken from the parameter if
\* given and otherwise from the environment, basic-auth credentials are
\* selected exactly when a username and a password are both available and
\* (the endpoint matches the managed-cloud pattern or no token is
\* available); otherwise bearer credentials when a token is available;
\* otherwise an error result and no credentials.
C3_SchemeSelection ==
    cpc = "done" =>
        IF HasUserAndPassword /\ (MatchesCloudPattern \/ ~HasToken)
        THEN /\ ~cOut.error
             /\ cOut.credentials.username = ValueOf(cParams.username, cEnv.AEM_USERNAME)
             /\ cOut.credentials.password = ValueOf(cParams.password, cEnv.AEM_PASSWORD)
             /\ ClientAuthScheme(cOut.credentials) = "basic"
        ELSE IF HasToken
        THEN /\ ~cOut.error
             /\ cOut.credentials.token = ValueOf(cParams.token, cEnv.AEM_TOKEN)
             /\ ClientAuthScheme(cOut.credentials) = "bearer"
        ELSE cOut.error /\ cOut.credentials = NoCredentials

\* Basic auth was selected although a token was available, on a cloud host.
C3_Witness ==
    /\ cpc = "done"
    /\ HasToken
    /\ MatchesCloudPattern
    /\ ~cOut.error
    /\ Truthy(cOut.credentials.username)

\* C4: whenever getAEMCredentials returns without an error, the credentials
\* carry exactly one scheme: a token and no username/password, or a username
\* and a password and no token; never both, and never none without an error.
C4_ExactlyOneScheme ==
    (cpc = "done" /\ ~cOut.error) =>
        LET c == cOut.credentials
        IN  \/ Truthy(c.token) /\ c.username = Undef /\ c.password = Undef
            \/ c.token = Undef /\ Truthy(c.username) /\ Truthy(c.password)

\* Token, username and password were all available and one scheme was returned.
C4_Witness ==
    /\ cpc = "done"
    /\ ~cOut.error
    /\ HasToken
    /\ HasUserAndPassword
    /\ cOut.credentials.token = Undef

(***************************************************************************)
(* Properties of the site-name sanitization                                *)
(***************************************************************************)
\* C5: the sanitization is idempotent, sanitize(sanitize(s)) = sanitize(s),
\* its output for a non-empty s is non-empty and consists only of a-z, 0-9
\* and hyphen, and "My Awesome Site!" gives "my-awesome-site-".
C5_SanitizeIdempotentNameSafe ==
    /\ spc \in {"once", "twice"} =>
         /\ sIn # <<>> =>
              /\ sOut # <<>>
              /\ \A i \in DOMAIN sOut :
                    sOut[i] \in Range(LowerLetters) \cup Digits \cup {"-"}
         /\ sIn = MyAwesomeSite => sOut = MyAwesomeSiteSanitized
    /\ spc = "twice" => sOut2 = sOut

\* The example name has been sanitized twice.
C5_Witness ==
    /\ spc = "twice"
    /\ sIn = MyAwesomeSite
    /\ sOut2 = MyAwesomeSiteSanitized

(***************************************************************************)
(* Properties of the site provisioning operations                          *)
(***************************************************************************)
IsDelete(e) == e.kind = "DELETE"
IsRequest(e) == e.kind \in {"DELETE", "POST"}
IsSiteCreateCall(e) == e.kind = "CALL" /\ e.via = "createSite"
IsPostReq(e) == e.kind = "POST"
IsSiteCreate(e) == e.kind = "POST" /\ e.via = "createSite"
IsPageCreate(e) == e.kind = "POST" /\ e.via = "createPage"
IsStructuredDelete(e) == e.kind = "DELETE" /\ e.via = "deleteSite"
IsDirectDelete(e) == e.kind = "DELETE" /\ e.via = "direct"
Succeeded(e) == e.status >= 200 /\ e.status < 300

SiteCreates == SelectSeq(log, IsSiteCreate)
PageCreates == SelectSeq(log, IsPageCreate)
StructuredDeletes == SelectSeq(log, IsStructuredDelete)
DirectDeletes == SelectSeq(log, IsDirectDelete)
SiteCreateCalls == SelectSeq(log, IsSiteCreateCall)
Requests == SelectSeq(log, IsRequest)

\* C6: createSite called without a siteTitle (even when a siteName is
\* given) fails with an error whose message contains "siteTitle is
\* required", and issues no request to the remote repository.
C6_MissingTitleRejectedBeforeAnyRequest ==
    /\ (pc = "done" /\ op \in {"createSite", "createMicrosite"}
            /\ ~Truthy(args.siteTitle)) =>
         /\ siteResult.status = "error"
         /\ Includes(siteResult.message, <<"siteTitle is required">>)
         /\ Len(SiteCreateCalls) = 1
         /\ Requests = <<>>
    /\ ~Truthy(args.siteTitle) => \A i \in DOMAIN log : ~IsPostReq(log[i])

\* createSite was called with a site name and an empty title, and failed.
C6_Witness ==
    /\ pc = "done"
    /\ op = "createSite"
    /\ Truthy(args.siteName)
    /\ args.siteTitle = Str(<<>>)
    /\ siteResult.status = "error"

\* The site path C7 states: the parent path, a slash, and the sanitized
\* site name, the name being derived from the title when absent.
StatedSitePath ==
    LET name == IF Truthy(args.siteName) THEN args.siteName.v
                ELSE ReplaceWsRuns(ToLowerCase(args.siteTitle.v))
        parent == IF args.parentPath.def THEN args.parentPath.v ELSE ContentPath
    IN  parent \o <<"/">> \o Sanitize(name)

\* C7: a successful createSite issues exactly one create request, at
\* sitePath = parentPath + "/" + sanitize(siteName), and returns that path;
\* an absent siteName is derived from siteTitle, so that the title
\* "Test Site" under the default parent yields "/content/test-site".
C7_OneCreateRequestAtSitePath ==
    siteResult.status = "ok" =>
        /\ Len(SiteCreates) = 1
        /\ SiteCreates[1].path = StatedSitePath
        /\ Succeeded(SiteCreates[1])
        /\ siteResult.sitePath = StatedSitePath
        /\ (~Truthy(args.siteName) /\ args.siteTitle = Str(TestSiteTitle)
                /\ ~args.parentPath.def) => siteResult.sitePath = TestSitePath

\* createSite({siteTitle: "Test Site"}) has returned /content/test-site.
C7_Witness ==
    /\ pc = "done"
    /\ op = "createSite"
    /\ args.siteName = Undef
    /\ args.siteTitle = Str(TestSiteTitle)
    /\ siteResult.status = "ok"
    /\ siteResult.sitePath = TestSitePath

RECURSIVE IsSubsequence(_, _)
IsSubsequence(s, of) ==
    IF s = <<>> THEN TRUE
    ELSE IF of = <<>> THEN FALSE
    ELSE IF Head(s) = Head(of) THEN IsSubsequence(Tail(s), Tail(of))
    ELSE IsSubsequence(s, Tail(of))

\* C8: in createMicrosite, once the site has been created, the failure of
\* any page creation does not fail the call and rolls nothing back: the call
\* returns success: true, its pages list holds exactly the pages whose
\* creation succeeded (a sub-sequence of the requested names, shorter than
\* the request whenever a page failed), and no delete request is issued for
\* the site or for pages already created.
C8_PartialPagesNoRollback ==
    (pc = "done" /\ op \in {"createMicrosite", "tool-create"}
        /\ siteResult.status = "ok") =>
        LET requested == PagesOf(args)
            created == SelectSeq(PageCreates, Succeeded)
        IN  /\ msResult.status = "ok"
            /\ msResult.success
            /\ op = "tool-create" => toolResult.kind = "success"
            /\ Len(PageCreates) = Len(requested)
            /\ \A i \in DOMAIN requested :
                    PageCreates[i].path = siteResult.sitePath \o <<"/">> \o requested[i]
            /\ [i \in DOMAIN msResult.pages |->
                    siteResult.sitePath \o <<"/">> \o msResult.pages[i]]
                 = [i \in DOMAIN created |-> created[i].path]
            /\ IsSubsequence(msResult.pages, requested)
            /\ (\E i \in DOMAIN PageCreates : ~Succeeded(PageCreates[i]))
                    => Len(msResult.pages) < Len(requested)
            /\ \A i, j \in DOMAIN log :
                    (i < j /\ IsPostReq(log[i])) => ~IsDelete(log[j])

\* createMicrosite returned success with some but not all of its pages.
C8_Witness ==
    /\ pc = "done"
    /\ op = "createMicrosite"
    /\ msResult.success
    /\ Len(msResult.pages) >= 1
    /\ Len(msResult.pages) < Len(PagesOf(args))
    /\ \E i \in DOMAIN log : IsPageCreate(log[i]) /\ ~Succeeded(log[i])

\* The position in the log of the first event of a kind, 0 when none.
FirstIndex(Test(_)) ==
    IF \E i \in DOMAIN log : Test(log[i])
    THEN CHOOSE i \in DOMAIN log : Test(log[i]) /\ \A j \in 1..(i - 1) : ~Test(log[j])
    ELSE 0

\* What holds of an aem-create-microsite call at any time: at most one
\* structured delete, at most one low-level delete and only after a failed
\* structured one, at most one call of createSite and at most one create
\* request, every delete at the handler's site path, and no delete once
\* createSite has been called.
OverwriteNeverRepeats ==
    /\ Len(StructuredDeletes) <= 1
    /\ Len(DirectDeletes) <= 1
    /\ Len(SiteCreateCalls) <= 1
    /\ Len(SiteCreates) <= Len(SiteCreateCalls)
    /\ Len(DirectDeletes) = 1 =>
          /\ Len(StructuredDeletes) = 1
          /\ ~Succeeded(StructuredDeletes[1])
          /\ FirstIndex(IsStructuredDelete) < FirstIndex(IsDirectDelete)
    /\ \A i \in DOMAIN log : IsDelete(log[i]) => log[i].path = loc.sitePath
    /\ \A i, j \in DOMAIN log :
          (i < j /\ (IsSiteCreateCall(log[i]) \/ IsPostReq(log[i]))) => ~IsDelete(log[j])

\* C9: with overwrite=true on a path that already exists, one
\* aem-create-microsite invocation performs exactly one delete attempt (the
\* structured deleteSite, then the low-level delete at the same path only if
\* the structured one failed) and then exactly one site-create attempt;
\* neither is ever issued again in that invocation, whatever their outcome.
C9_OneDeleteThenOneCreate ==
    (op = "tool-create" /\ args.overwrite /\ loc.existed) =>
        /\ OverwriteNeverRepeats
        /\ pc = "done" =>
              /\ Len(StructuredDeletes) = 1
              /\ Len(DirectDeletes) = (IF Succeeded(StructuredDeletes[1]) THEN 0 ELSE 1)
              /\ Len(SiteCreates) = 1
              /\ SiteCreates[1].path = loc.sitePath

\* The part of C9 that the code keeps: createSite is called exactly once, and
\* issues its one create request whenever the siteTitle is not empty.
OverwriteOneDeleteOneCreateCall ==
    (op = "tool-create" /\ args.overwrite /\ loc.existed) =>
        /\ OverwriteNeverRepeats
        /\ pc = "done" =>
              /\ Len(StructuredDeletes) = 1
              /\ Len(DirectDeletes) = (IF Succeeded(StructuredDeletes[1]) THEN 0 ELSE 1)
              /\ Len(SiteCreateCalls) = 1
              /\ Truthy(args.siteTitle) =>
                    Len(SiteCreates) = 1 /\ SiteCreates[1].path = loc.sitePath

\* An overwrite of an existing site is over: the structured delete failed,
\* the low-level delete followed, and the site was created once.
OverwriteFellBackAndCreated ==
    /\ pc = "done"
    /\ op = "tool-create"
    /\ args.overwrite
    /\ loc.existed
    /\ Len(StructuredDeletes) = 1
    /\ ~Succeeded(StructuredDeletes[1])
    /\ Len(DirectDeletes) = 1
    /\ Len(SiteCreates) = 1
    /\ toolResult.kind = "success"

\* An overwrite of an existing site with an empty title is over: the site
\* was deleted and createSite rejected the call before any create request.
OverwriteDeletedThenRejected ==
    /\ pc = "done"
    /\ op = "tool-create"
    /\ args.overwrite
    /\ loc.existed
    /\ loc.sitePath \notin repo
    /\ Len(SiteCreateCalls) = 1
    /\ SiteCreates = <<>>

\* The delete requests C10 allows, as stated: those of a confirmed
\* aem-delete-site call.
DeleteIsConfirmed == op = "tool-delete" /\ args.confirm
CancelledWithoutRequest ==
    (pc = "done" /\ op = "tool-delete" /\ ~args.confirm) =>
        Requests = <<>> /\ toolResult.kind = "cancelled"

\* C10 as stated: aem-delete-site with confirm not true issues no remote
\* request and reports the deletion as cancelled, and no delete request
\* against a site path is ever issued by any operation other than a
\* confirmed delete call.
C10_OnlyConfirmedDeleteDestroys ==
    /\ CancelledWithoutRequest
    /\ \A i \in DOMAIN log : IsDelete(log[i]) => DeleteIsConfirmed

\* C10 amended: the same, except that an aem-create-microsite call with
\* overwrite=true also issues delete requests, at the path of the site it
\* is about to create, without any confirmation.
C10_OnlyConfirmedDeleteOrOverwriteDestroys ==
    /\ CancelledWithoutRequest
    /\ \A i \in DOMAIN log :
          IsDelete(log[i]) =>
              \/ DeleteIsConfirmed /\ log[i].path = args.sitePath
              \/ op = "tool-create" /\ args.overwrite /\ log[i].path = loc.sitePath

\* An unconfirmed aem-delete-site call on an existing site was cancelled.
C10_Witness ==
    /\ pc = "done"
    /\ op = "tool-delete"
    /\ ~args.confirm
    /\ toolResult.kind = "cancelled"
    /\ args.sitePath \in repo
    /\ log = <<>>

\* The create request of the call has failed.
SiteCreateFailed == SiteCreates # <<>> /\ ~Succeeded(SiteCreates[1])

\* C11: when site creation fails and the remote response indicates that the
\* path already exists (status 409, or an "already exists" marker in the
\* response body), aem-create-microsite reports the failure as a site
\* conflict with the overwrite / delete-first remediation; every other
\* creation failure is reported without that remediation.
C11_ConflictOnStatusOrBodyMarker ==
    (pc = "done" /\ op = "tool-create" /\ toolResult.kind = "failure") =>
        (toolResult.siteExists <=>
            (SiteCreateFailed /\ (SiteCreates[1].status = 409 \/ SiteCreates[1].exists)))

\* What the code keeps of C11: the remediation is given exactly for a create
\* request answered with status 409, whatever the body says.
ConflictOnStatus409Only ==
    (pc = "done" /\ op = "tool-create" /\ toolResult.kind = "failure") =>
        (toolResult.siteExists <=> (SiteCreateFailed /\ SiteCreates[1].status = 409))

\* A create answered 500 with an "already exists" body has been reported
\* without the remediation.
ExistsMarkerReportedWithoutRemediation ==
    /\ pc = "done"
    /\ op = "tool-create"
    /\ SiteCreateFailed
    /\ SiteCreates[1].status = 500
    /\ SiteCreates[1].exists
    /\ toolResult.kind = "failure"
    /\ ~toolResult.siteExists

(***************************************************************************)
(* AEMMicrositeClient.listSites                                            *)
(***************************************************************************)
OthersIdle == SanIdle /\ CredIdle /\ MainIdle /\ SiteIdle /\ InvIdle
othersVars == <<sanVars, credVars, mainVars, siteVars, invVars>>

NoOutput == [status |-> "none", value |-> <<>>, message |-> <<>>]
Returned(v) == [status |-> "ok", value |-> v, message |-> <<>>]
Thrown(message) == [status |-> "error", value |-> <<>>, message |-> message]

\* A request of a call and the status it was answered with (0: no response).
Request(method, url, st) == [method |-> method, url |-> url, status |-> st]

PrimaryTypeKey == <<"jcr:primaryType">>
PageType == <<"cq:Page">>
FolderType == <<"sling:Folder">>
SiteOneTitle == <<"S", "i", "t", "e", " ", "1">>

\* The values of the entries of a .1.json response: a property of the
\* parent (a string), or a child node with its own properties.
NoContent == [def |-> FALSE, title |-> Undef]
Content(title) == [def |-> TRUE, title |-> title]
StringValue(s) == [kind |-> "string", s |-> s, primaryType |-> Undef, content |-> NoContent]
NodeValue(primaryType, content) ==
    [kind |-> "object", s |-> <<>>, primaryType |-> primaryType, content |-> content]

MaxChildren == 2
ListKeys == {PrimaryTypeKey, <<"s", "1">>, <<"2">>}
ListValues ==
    {StringValue(PageType)}
        \cup {NodeValue(pt, c) :
                pt \in {Undef, Str(PageType), Str(FolderType)},
                c \in {NoContent, Content(Undef), Content(Str(<<>>)), Content(Str(SiteOneTitle))}}
ListEntries ==
    {e \in [key : ListKeys, value : ListValues] :
        (e.key = PrimaryTypeKey) <=> (e.value.kind = "string")}
ListData ==
    {[def |-> FALSE, entries |-> <<>>]}
        \cup {[def |-> TRUE, entries |-> es] :
                es \in {s \in UNION {[1..n -> ListEntries] : n \in 0..MaxChildren} :
                           \A i, j \in DOMAIN s : i # j => s[i].key # s[j].key}}

\* value['jcr:primaryType']: undefined on a string
PrimaryTypeOf(value) == IF value.kind = "object" THEN value.primaryType ELSE Undef

\* A plausible slip: every child node is listed, whatever its type.
IsSiteEntryAnyNode(key, value) == key # PrimaryTypeKey /\ value.kind = "object"

\* listSites, line 784
IsSiteEntry(key, value) == key # PrimaryTypeKey /\ PrimaryTypeOf(value) = Str(PageType)

\* listSites, line 788: value['jcr:content']?.['jcr:title'] || key
SiteTitleOf(key, value) ==
    IF value.content.def /\ Truthy(value.content.title) THEN value.content.title.v ELSE key

\* listSites, lines 785-789
SiteEntry(parentPath, key, value) ==
    [name |-> key, path |-> parentPath \o <<"/">> \o key, title |-> SiteTitleOf(key, value)]

\* listSites, lines 783-791: the loop over Object.entries(response.data)
RECURSIVE SitesOf(_, _)
SitesOf(parentPath, entries) ==
    IF entries = <<>> THEN <<>>
    ELSE LET e == Head(entries)
             rest == SitesOf(parentPath, Tail(entries))
         IN  IF IsSiteEntry(e.key, e.value)
             THEN <<SiteEntry(parentPath, e.key, e.value)>> \o rest
             ELSE rest

\* listSites, lines 780-794, on a response
ListSites(parentPath, data) == IF data.def THEN SitesOf(parentPath, data.entries) ELSE <<>>

\* listSites(parentPath = '/content')
ListParentOf(parentPath) == IF parentPath.def THEN parentPath.v ELSE ContentPath

ListStatuses == {200, 404, 0}

ListInit ==
    /\ fn = "listSites"
    /\ input \in [parentPath : {Undef, Str(SitesPath)}, data : ListData]
    /\ output = NoOutput
    /\ trace = <<>>

\* listSites, lines 777-798: one GET, then the entries of its response
ListSitesCall ==
    /\ fn = "listSites"
    /\ output = NoOutput
    /\ \E st \in ListStatuses :
          /\ trace' = Append(trace, Request("GET", ListParentOf(input.parentPath) \o <<".1.json">>, st))
          /\ output' = IF Is2xx(st)
                        THEN Returned(ListSites(ListParentOf(input.parentPath), input.data))
                        ELSE Thrown(<<"Failed to list sites: ">> \o AxiosMessage(st))
    /\ UNCHANGED <<fn, input>>
    /\ UNCHANGED othersVars

ListNext == ListSitesCall
InitListSites == OthersIdle /\ ListInit
SpecListSites == InitListSites /\ [][ListNext]_vars

\* The children of the response that are pages.
PageChildren ==
    {i \in DOMAIN input.data.entries :
        /\ input.data.entries[i].value.kind = "object"
        /\ input.data.entries[i].value.primaryType = Str(PageType)}

\* The entry C12 states for a child.
StatedSiteEntry(e) ==
    LET parent == IF input.parentPath.def THEN input.parentPath.v ELSE <<"/", "c", "o", "n", "t", "e", "n", "t">>
        titled == e.value.content.def /\ e.value.content.title.def
                    /\ e.value.content.title.v # <<>>
    IN  [name |-> e.key, path |-> parent \o <<"/">> \o e.key,
         title |-> IF titled THEN e.value.content.title.v ELSE e.key]

\* C12: listSites(parentPath) returns exactly one entry {name, path =
\* parentPath + "/" + name, title} for each immediate child whose node type
\* is the page type, with title falling back to the child's name; when the
\* response has no such child, or no data at all, it returns an empty list
\* and does not fail.
C12_OneEntryPerPageChild ==
    (fn = "listSites" /\ trace # <<>>) =>
        /\ Len(trace) = 1
        /\ Is2xx(trace[1].status) =>
              /\ output.status = "ok"
              /\ Len(output.value) = Cardinality(PageChildren)
              /\ \A i \in PageChildren :
                    \E j \in DOMAIN output.value :
                        output.value[j] = StatedSiteEntry(input.data.entries[i])
              /\ PageChildren = {} => output.value = <<>>

\* listSites has returned one entry for a page without a title, named after
\* the child, from a response that holds another kind of node too.
C12_Witness ==
    /\ fn = "listSites"
    /\ output.status = "ok"
    /\ Len(output.value) = 1
    /\ Len(input.data.entries) = 2
    /\ output.value[1].title = output.value[1].name
    /\ \E i \in DOMAIN input.data.entries :
          input.data.entries[i].value.primaryType = Str(FolderType)

\* listSites has returned an empty list for a response without data.
ListSitesEmptyOnNoData ==
    /\ fn = "listSites"
    /\ ~input.data.def
    /\ output = Returned(<<>>)

(***************************************************************************)
(* The aem-search-assets tool handler                                      *)
(***************************************************************************)
\* A tool result that is a text of the given kind.
ToolText(kind) == [status |-> kind, value |-> <<>>, message |-> <<>>]

SunQuery == <<"s", "u", "n">>
SearchParamInputs == {Undef, Str(<<>>), Str(SunQuery)}
SearchValueInputs == {Undef, Str(<<>>), Str(<<"a">>)}
ReplaceValueInputs == {Undef, Str(<<>>), Str(<<"b">>)}
QueryBuilderUrl == <<"/bin/querybuilder.json">>
AssetPath == <<"/content/dam/a.png">>
SearchStatuses == {200, 401, 500, 0}
MetadataStatuses == {200, 401, 404}
MaxHits == 1

\* aem-search-assets, line 1106
SearchParamMissing(query, filename, title) ==
    ~Truthy(query) /\ ~Truthy(filename) /\ ~Truthy(title)

\* A plausible slip: an empty replaceValue counts as none.
ReplaceValueMissingWhenEmpty(searchValue, replaceValue) ==
    Truthy(searchValue) /\ ~Truthy(replaceValue)

\* aem-search-assets, line 1127
ReplaceValueMissing(searchValue, replaceValue) ==
    (searchValue.def /\ searchValue.v # <<>>) /\ ~replaceValue.def

SearchToolInit ==
    /\ fn = "aem-search-assets"
    /\ input \in [query : SearchParamInputs, filename : SearchParamInputs,
                   title : SearchParamInputs, searchValue : SearchValueInputs,
                   replaceValue : ReplaceValueInputs, auth : AuthInputs,
                   env : EnvInputs, hits : 0..MaxHits]
    /\ output = NoOutput
    /\ trace = <<>>

\* aem-search-assets, lines 1104-1136: the checks before the search
SearchToolValidate ==
    /\ fn = "aem-search-assets"
    /\ IF SearchParamMissing(input.query, input.filename, input.title)
       THEN fn' = "done" /\ output' = ToolText("search-param-required")
       ELSE IF GetAEMCredentials(input.auth, input.env).error
       THEN fn' = "done" /\ output' = ToolText("auth-required")
       ELSE IF ReplaceValueMissing(input.searchValue, input.replaceValue)
       THEN fn' = "done" /\ output' = ToolText("replace-value-required")
       ELSE fn' = "searchAssets" /\ UNCHANGED output
    /\ UNCHANGED <<input, trace>>
    /\ UNCHANGED othersVars

\* searchAssets, lines 110-152 and 200-214, with the handler's
\* report (lines 1148-1247): the QueryBuilder request
SearchToolQuery ==
    /\ fn = "searchAssets"
    /\ \E st \in SearchStatuses :
          /\ trace' = Append(trace, Request("GET", QueryBuilderUrl, st))
          /\ IF ~Is2xx(st)
             THEN fn' = "done" /\ output' = ToolText("failure")
             ELSE IF input.hits = 0
             THEN fn' = "done" /\ output' = ToolText("success")
             ELSE fn' = "metadata" /\ UNCHANGED output
    /\ UNCHANGED input
    /\ UNCHANGED othersVars

\* searchAssets, lines 157-197: the metadata request of a hit; its failure
\* is caught and the hit is still reported
SearchToolMetadata ==
    /\ fn = "metadata"
    /\ \E st \in MetadataStatuses :
          trace' = Append(trace, Request("GET", AssetPath \o <<"/jcr:content/metadata.json">>, st))
    /\ fn' = IF Len(trace) = input.hits THEN "done" ELSE "metadata"
    /\ output' = IF Len(trace) = input.hits THEN ToolText("success") ELSE output
    /\ UNCHANGED input
    /\ UNCHANGED othersVars

SearchToolNext == SearchToolValidate \/ SearchToolQuery \/ SearchToolMetadata
InitSearchTool == OthersIdle /\ SearchToolInit
SpecSearchTool == InitSearchTool /\ [][SearchToolNext]_vars

Supplied(x) == x.def /\ x.v # <<>>
SearchRejected ==
    output.status \in {"search-param-required", "auth-required", "replace-value-required"}
SearchToolOver == fn = "done"
SearchToolChecked == fn \in {"searchAssets", "metadata", "done"}

\* C13: aem-search-assets rejects, without issuing any remote request, a
\* call that supplies none of query, filename and title, and a call that
\* supplies a non-empty searchValue with no replaceValue; a call whose
\* replaceValue is the empty string is accepted and searched (when it names
\* something to search for and credentials are available).
C13_SearchValidation ==
    /\ (~Supplied(input.query) /\ ~Supplied(input.filename) /\ ~Supplied(input.title)) =>
          /\ trace = <<>>
          /\ SearchToolChecked => SearchToolOver /\ output.status = "search-param-required"
    /\ (Supplied(input.searchValue) /\ ~input.replaceValue.def) =>
          /\ trace = <<>>
          /\ SearchToolChecked => SearchToolOver /\ SearchRejected
    /\ (/\ input.replaceValue = Str(<<>>)
        /\ Supplied(input.query) \/ Supplied(input.filename) \/ Supplied(input.title)
        /\ ~GetAEMCredentials(input.auth, input.env).error) =>
          /\ SearchToolChecked => ~SearchRejected
          /\ SearchToolOver =>
                /\ trace # <<>>
                /\ trace[1].url = QueryBuilderUrl
                /\ output.status \in {"success", "failure"}

\* A call with a searchValue and an empty replaceValue has been searched.
C13_Witness ==
    /\ fn = "done"
    /\ Supplied(input.searchValue)
    /\ input.replaceValue = Str(<<>>)
    /\ output.status = "success"
    /\ Len(trace) = 2

\* A call with a searchValue and no replaceValue has been turned down for
\* that reason.
SearchRejectedForReplaceValue ==
    /\ fn = "done"
    /\ output.status = "replace-value-required"
    /\ trace = <<>>

(***************************************************************************)
(* AEMAssetClient.replaceValuesInMetadata                                  *)
(***************************************************************************)
\* JSON values: a string, a number, an array of values, or an object, whose
\* items are the values of its keys in key order (the keys are kept as they
\* are by the code).
JsonString(s) == [t |-> "string", s |-> s, items |-> <<>>]
JsonNumber == [t |-> "number", s |-> <<>>, items |-> <<>>]
JsonArray(items) == [t |-> "array", s |-> <<>>, items |-> items]
JsonObject(items) == [t |-> "object", s |-> <<>>, items |-> items]

MaxDepth == 2
MetadataStrings == {<<"A", "b">>, <<"x", "a", "B", "a", "b">>, <<"x">>}
JsonLeaves == {JsonString(s) : s \in MetadataStrings} \cup {JsonNumber}

RECURSIVE JsonValues(_)
JsonValues(depth) ==
    IF depth = 0 THEN JsonLeaves
    ELSE JsonLeaves \cup {JsonArray(<<v>>) : v \in JsonValues(depth - 1)}
                    \cup {JsonObject(<<v>>) : v \in JsonValues(depth - 1)}

\* The metadata of an asset: an object of one or two fields.
MetadataInputs ==
    {JsonObject(<<v>>) : v \in JsonValues(MaxDepth)}
        \cup {JsonObject(<<v, w>>) : v \in JsonValues(MaxDepth), w \in JsonLeaves}

\* Whether search, compared without regard to case, starts s.
StartsWithIgnoringCase(s, search) ==
    Len(search) <= Len(s) /\ ToLowerCase(SubSeq(s, 1, Len(search))) = ToLowerCase(search)

\* String.prototype.replace: the replacement with its patterns expanded,
\* "$$" to a dollar sign and "$&" to the text matched.
RECURSIVE ExpandReplacement(_, _)
ExpandReplacement(replacement, matched) ==
    IF replacement = <<>> THEN <<>>
    ELSE IF Len(replacement) >= 2 /\ replacement[1] = "$" /\ replacement[2] = "$"
    THEN <<"$">> \o ExpandReplacement(SubSeq(replacement, 3, Len(replacement)), matched)
    ELSE IF Len(replacement) >= 2 /\ replacement[1] = "$" /\ replacement[2] = "&"
    THEN matched \o ExpandReplacement(SubSeq(replacement, 3, Len(replacement)), matched)
    ELSE <<Head(replacement)>> \o ExpandReplacement(Tail(replacement), matched)

\* replaceValuesInMetadata, lines 234 and 239:
\* value.replace(new RegExp(this.escapeRegex(searchValue), 'gi'), replaceValue);
\* escapeRegex (lines 282-286) makes the pattern match searchValue literally.
RECURSIVE ReplaceInString(_, _, _)
ReplaceInString(value, searchValue, replaceValue) ==
    IF value = <<>> THEN <<>>
    ELSE IF StartsWithIgnoringCase(value, searchValue)
    THEN ExpandReplacement(replaceValue, SubSeq(value, 1, Len(searchValue)))
            \o ReplaceInString(SubSeq(value, Len(searchValue) + 1, Len(value)),
                                searchValue, replaceValue)
    ELSE <<Head(value)>> \o ReplaceInString(Tail(value), searchValue, replaceValue)

\* replaceValuesInMetadata, lines 237-242: only the strings among the
\* elements of an array are rewritten
ReplaceInArrayItem(item, searchValue, replaceValue) ==
    IF item.t = "string"
    THEN JsonString(ReplaceInString(item.s, searchValue, replaceValue))
    ELSE item

\* replaceValuesInMetadata, lines 224-253
RECURSIVE ReplaceValuesInMetadata(_, _, _)
ReplaceValuesInMetadata(metadata, searchValue, replaceValue) ==
    IF metadata.t \notin {"object", "array"} THEN metadata
    ELSE JsonObject(
            [i \in DOMAIN metadata.items |->
                LET value == metadata.items[i]
                IN  CASE value.t = "string" ->
                            JsonString(ReplaceInString(value.s, searchValue, replaceValue))
                      [] value.t = "array" ->
                            JsonArray([j \in DOMAIN value.items |->
                                ReplaceInArrayItem(value.items[j], searchValue, replaceValue)])
                      [] value.t = "object" ->
                            ReplaceValuesInMetadata(value, searchValue, replaceValue)
                      [] OTHER -> value])

ReplaceSearchInputs == {<<"a", "b">>, <<"z">>}
ReplaceWithInputs == {<<>>, <<"!">>, <<"$", "&">>}

ReplaceInit ==
    /\ fn = "replaceValuesInMetadata"
    /\ input \in [metadata : MetadataInputs, searchValue : ReplaceSearchInputs,
                   replaceValue : ReplaceWithInputs]
    /\ output = NoOutput
    /\ trace = <<>>

\* searchAssets, lines 182-183: the metadata of a result is rewritten
ReplaceCall ==
    /\ fn = "replaceValuesInMetadata"
    /\ output = NoOutput
    /\ output' = Returned(ReplaceValuesInMetadata(input.metadata, input.searchValue,
                                                  input.replaceValue))
    /\ UNCHANGED <<fn, input, trace>>
    /\ UNCHANGED othersVars

ReplaceNext == ReplaceCall
InitReplace == OthersIdle /\ ReplaceInit
SpecReplace == InitReplace /\ [][ReplaceNext]_vars

\* s with every occurrence of search, whatever its case, replaced by with.
RECURSIVE Rewritten(_, _, _)
Rewritten(s, search, with) ==
    IF s = <<>> THEN <<>>
    ELSE IF Len(search) <= Len(s)
            /\ ToLowerCase(SubSeq(s, 1, Len(search))) = ToLowerCase(search)
    THEN with \o Rewritten(SubSeq(s, Len(search) + 1, Len(s)), search, with)
    ELSE <<s[1]>> \o Rewritten(Tail(s), search, with)

\* v with every string leaf rewritten, at any depth.
RECURSIVE RewrittenDeep(_, _, _)
RewrittenDeep(v, search, with) ==
    IF v.t = "string" THEN [v EXCEPT !.s = Rewritten(v.s, search, with)]
    ELSE [v EXCEPT !.items = [i \in DOMAIN v.items |-> RewrittenDeep(v.items[i], search, with)]]

\* Whether search occurs, whatever its case, in a string leaf of v.
RECURSIVE OccursIn(_, _)
OccursIn(v, search) ==
    IF v.t = "string"
    THEN \E i \in 1..Len(v.s) :
            i + Len(search) - 1 <= Len(v.s)
            /\ ToLowerCase(SubSeq(v.s, i, i + Len(search) - 1)) = ToLowerCase(search)
    ELSE \E i \in DOMAIN v.items : OccursIn(v.items[i], search)

\* Whether an array of v holds a container.
RECURSIVE HasContainerInArray(_)
HasContainerInArray(v) ==
    \/ v.t = "array" /\ \E i \in DOMAIN v.items : v.items[i].t \in {"array", "object"}
    \/ \E i \in DOMAIN v.items : HasContainerInArray(v.items[i])

\* C14: when searchValue is supplied, every string leaf of the fetched
\* metadata, at any nesting depth through objects and arrays (strings inside
\* objects that are array elements and inside nested arrays included), is
\* rewritten by replacing every case-insensitive occurrence of searchValue
\* with replaceValue; metadata in which searchValue does not occur is
\* returned with every field unchanged.
C14_EveryStringLeafRewritten ==
    (fn = "replaceValuesInMetadata" /\ output.status = "ok") =>
        /\ output.value = RewrittenDeep(input.metadata, input.searchValue, input.replaceValue)
        /\ ~OccursIn(input.metadata, input.searchValue) => output.value = input.metadata

\* What the code keeps of C14: the same, for metadata whose arrays hold no
\* array and no object and a replaceValue without a dollar sign.
StringLeavesRewrittenOutsideNestedArrays ==
    (/\ fn = "replaceValuesInMetadata"
     /\ output.status = "ok"
     /\ ~HasContainerInArray(input.metadata)
     /\ \A i \in DOMAIN input.replaceValue : input.replaceValue[i] # "$") =>
        output.value = RewrittenDeep(input.metadata, input.searchValue, input.replaceValue)

\* Non-matching metadata comes back unchanged.
UnchangedWhenNoOccurrence ==
    (fn = "replaceValuesInMetadata" /\ output.status = "ok"
        /\ ~OccursIn(input.metadata, input.searchValue)) => output.value = input.metadata

\* A string inside an object that is an array element matched and was
\* returned as it was.
StringInArrayObjectNotRewritten ==
    /\ fn = "replaceValuesInMetadata"
    /\ output.status = "ok"
    /\ input.metadata = JsonObject(<<JsonArray(<<JsonObject(<<JsonString(<<"A", "b">>)>>)>>)>>)
    /\ input.searchValue = <<"a", "b">>
    /\ input.replaceValue = <<"!">>
    /\ output.value = input.metadata

\* A replaceValue of "$&" left a matching string as it was: the pattern
\* stands for the text matched.
DollarPatternExpanded ==
    /\ fn = "replaceValuesInMetadata"
    /\ output.status = "ok"
    /\ input.metadata = JsonObject(<<JsonString(<<"A", "b">>)>>)
    /\ input.searchValue = <<"a", "b">>
    /\ input.replaceValue = <<"$", "&">>
    /\ output.value = input.metadata

(***************************************************************************)
(* AEMAssetClient.searchAssets: the QueryBuilder predicates                *)
(***************************************************************************)
GlobSpecials == {"\\", "*", "?", "[", "]", "{", "}"}
LikeSpecials == {"\\", "%", "_"}

\* value.replace(/[...]/g, '\\$&'): each character of the class is prefixed
\* by a backslash
RECURSIVE EscapeEach(_, _)
EscapeEach(value, class) ==
    IF value = <<>> THEN <<>>
    ELSE (IF Head(value) \in class THEN <<"\\", Head(value)>> ELSE <<Head(value)>>)
            \o EscapeEach(Tail(value), class)

\* escapeGlobValue, lines 260-264
EscapeGlobValue(value) == IF ~Truthy(value) THEN <<>> ELSE EscapeEach(value.v, GlobSpecials)

\* A plausible slip: the like value is escaped as a glob value.
EscapeLikeValueAsGlob(value) == EscapeGlobValue(value)

\* escapeLikeValue, lines 271-275
EscapeLikeValue(value) == IF ~Truthy(value) THEN <<>> ELSE EscapeEach(value.v, LikeSpecials)

Param(name, value) == [name |-> name, value |-> value]
NodenameOf(value) == <<"*">> \o EscapeGlobValue(value) \o <<"*">>
LikeOf(value) == <<"%">> \o EscapeLikeValue(value) \o <<"%">>

\* searchAssets, lines 64-90
QueryPredicates(query) ==
    IF ~Truthy(query) THEN <<>>
    ELSE << Param("1_group.or", <<"true">>),
            Param("1_group.1_nodename", NodenameOf(query)),
            Param("1_group.2_property", <<"jcr:content/metadata/dc:title">>),
            Param("1_group.2_property.operation", <<"like">>),
            Param("1_group.2_property.value", LikeOf(query)),
            Param("1_group.3_property", <<"jcr:content/metadata/dc:description">>),
            Param("1_group.3_property.operation", <<"like">>),
            Param("1_group.3_property.value", LikeOf(query)),
            Param("1_group.4_property", <<"jcr:content/metadata/dc:subject">>),
            Param("1_group.4_property.operation", <<"like">>),
            Param("1_group.4_property.value", LikeOf(query)),
            Param("1_group.5_property", <<"jcr:content/metadata/product:brand">>),
            Param("1_group.5_property.operation", <<"like">>),
            Param("1_group.5_property.value", LikeOf(query)),
            Param("1_group.6_property", <<"jcr:content/metadata/product:sku">>),
            Param("1_group.6_property.operation", <<"like">>),
            Param("1_group.6_property.value", LikeOf(query)) >>

\* searchAssets, lines 92-94
FilenamePredicates(filename) ==
    IF ~Truthy(filename) THEN <<>> ELSE << Param("2_nodename", NodenameOf(filename)) >>

\* searchAssets, lines 96-100
TitlePredicates(title) ==
    IF ~Truthy(title) THEN <<>>
    ELSE << Param("3_property", <<"jcr:content/metadata/dc:title">>),
            Param("3_property.operation", <<"like">>),
            Param("3_property.value", LikeOf(title)) >>

\* searchAssets, lines 55-108: the parameters of the query
SearchParams(query, filename, title) ==
    << Param("type", <<"dam:Asset">>), Param("path", <<"/content/dam">>) >>
        \o QueryPredicates(query) \o FilenamePredicates(filename) \o TitlePredicates(title)
        \o << Param("p.limit", <<"50">>), Param("p.offset", <<"0">>),
               Param("orderby", <<"@jcr:content/jcr:lastModified">>),
               Param("orderby.sort", <<"desc">>) >>

MaxQueryLen == 2
QueryAlphabet == {"a", "\\", "*", "?", "[", "]", "{", "}", "%", "_"}
QueryStrings == StringsUpTo(QueryAlphabet, MaxQueryLen)

\* A search value, and which of query, filename and title carry it.
QueryInit ==
    /\ fn = "searchAssets"
    /\ \E s \in QueryStrings, q, f, ti \in BOOLEAN :
          input = [query |-> IF q THEN Str(s) ELSE Undef,
                   filename |-> IF f THEN Str(s) ELSE Undef,
                   title |-> IF ti THEN Str(s) ELSE Undef]
    /\ output = NoOutput
    /\ trace = <<>>

\* searchAssets, lines 41-115: the query is built and sent
QueryCall ==
    /\ fn = "searchAssets"
    /\ output = NoOutput
    /\ \E st \in SearchStatuses :
          /\ trace' = Append(trace, Request("GET", QueryBuilderUrl, st))
          /\ output' = IF Is2xx(st)
                        THEN Returned(SearchParams(input.query, input.filename, input.title))
                        ELSE [Thrown(<<"Failed to search assets: ">> \o AxiosMessage(st))
                                EXCEPT !.value = SearchParams(input.query, input.filename,
                                                              input.title)]
    /\ UNCHANGED <<fn, input>>
    /\ UNCHANGED othersVars

QueryNext == QueryCall
InitQuery == OthersIdle /\ QueryInit
SpecQuery == InitQuery /\ [][QueryNext]_vars

\* s with each character of specials prefixed by a backslash and every
\* other character unchanged.
BackslashPrefixed(s, specials) ==
    LET Piece(c) == IF c \in specials THEN <<"\\", c>> ELSE <<c>>
        F[i \in 0..Len(s)] == IF i = 0 THEN <<>> ELSE F[i - 1] \o Piece(s[i])
    IN  F[Len(s)]

GlobPredicateNames == {"1_group.1_nodename", "2_nodename"}
LikePredicateNames ==
    {"1_group.2_property.value", "1_group.3_property.value", "1_group.4_property.value",
     "1_group.5_property.value", "1_group.6_property.value", "3_property.value"}
ValueBehind(name) ==
    IF name = "2_nodename" THEN input.filename.v
    ELSE IF name = "3_property.value" THEN input.title.v
    ELSE input.query.v
ParamNames == {output.value[i].name : i \in DOMAIN output.value}

\* C15: query values are escaped by two independent functions and never the
\* wrong one: every value placed in a node-name (glob) predicate has exactly
\* the characters \ * ? [ ] { } each prefixed by a backslash and all other
\* characters unchanged, and every value placed in a like predicate has
\* exactly the characters \ % _ each prefixed by a backslash and all other
\* characters unchanged.
C15_EscapedPerPredicateKind ==
    (fn = "searchAssets" /\ trace # <<>>) =>
        /\ \A i \in DOMAIN output.value :
              LET p == output.value[i]
              IN  /\ p.name \in GlobPredicateNames =>
                        p.value = <<"*">> \o BackslashPrefixed(ValueBehind(p.name),
                                        {"\\", "*", "?", "[", "]", "{", "}"}) \o <<"*">>
                  /\ p.name \in LikePredicateNames =>
                        p.value = <<"%">> \o BackslashPrefixed(ValueBehind(p.name),
                                        {"\\", "%", "_"}) \o <<"%">>
        /\ (input.query.def /\ input.query.v # <<>>) =>
              {"1_group.1_nodename", "1_group.2_property.value", "1_group.3_property.value",
               "1_group.4_property.value", "1_group.5_property.value",
               "1_group.6_property.value"} \subseteq ParamNames
        /\ (input.filename.def /\ input.filename.v # <<>>) => "2_nodename" \in ParamNames
        /\ (input.title.def /\ input.title.v # <<>>) => "3_property.value" \in ParamNames

\* A query of "*_" was sent: the node-name predicate has the star escaped
\* and the underscore not, the like predicates the reverse.
C15_Witness ==
    /\ fn = "searchAssets"
    /\ trace # <<>>
    /\ input.query = Str(<<"*", "_">>)
    /\ \E i \in DOMAIN output.value :
          /\ output.value[i].name = "1_group.1_nodename"
          /\ output.value[i].value = <<"*", "\\", "*", "_", "*">>
    /\ \E i \in DOMAIN output.value :
          /\ output.value[i].name = "1_group.2_property.value"
          /\ output.value[i].value = <<"%", "*", "\\", "_", "%">>

(***************************************************************************)
(* AEMAssetClient.renameAsset                                              *)
(***************************************************************************)
DamRoot == <<"/", "c", "o", "n", "t", "e", "n", "t", "/", "d", "a", "m", "/">>
OldAssetPath == DamRoot \o <<"a", ".", "p", "n", "g">>
FolderAssetPath == DamRoot \o <<"f", "/", "a", ".", "p", "n", "g">>
DamItself == <<"/", "c", "o", "n", "t", "e", "n", "t", "/", "d", "a", "m">>
OutsideAssetPath == <<"/", "c", "o", "n", "t", "e", "n", "t", "/", "x", "/", "a", ".", "p", "n", "g">>
LookalikeAssetPath == <<"/", "c", "o", "n", "t", "e", "n", "t", "/", "d", "a", "m", "x", "/", "a">>
NewAssetName == <<"b", ".", "p", "n", "g">>
AssetPathInputs ==
    {Undef, Str(<<>>), Str(OldAssetPath), Str(FolderAssetPath), Str(DamItself),
     Str(OutsideAssetPath), Str(LookalikeAssetPath)}
NewNameInputs ==
    {Undef, Str(<<>>), Str(NewAssetName), Str(<<"x", "/", "b", ".", "p", "n", "g">>), Str(<<"a", ".", "p", "n", "g">>)}

\* The positions of the slashes of a path.
SlashesOf(s) == {i \in DOMAIN s : s[i] = "/"}
LastSlash(s) == IF SlashesOf(s) = {} THEN 0 ELSE CHOOSE i \in SlashesOf(s) : \A j \in SlashesOf(s) : j <= i

\* s.split('/').pop()
LastSegment(s) == SubSeq(s, LastSlash(s) + 1, Len(s))
\* s.split('/').slice(0, -1).join('/')
WithoutLastSegment(s) == SubSeq(s, 1, LastSlash(s) - 1)

\* renameAsset, lines 306-311
RenameNewPath(assetPath, newName) ==
    WithoutLastSegment(assetPath) \o <<"/">> \o LastSegment(newName)

\* renameAsset, lines 296-303: the message of the validation error, or none
RenameValidationError(assetPath, newName) ==
    IF ~Truthy(assetPath) \/ ~Truthy(newName)
    THEN <<"Asset path and new name are required">>
    ELSE IF ~IsPrefix(DamRoot, assetPath.v)
    THEN <<"Asset path must start with /content/dam/">>
    ELSE <<>>

ProbeStatuses == {200, 403, 404, 500, 0}
MoveStatuses == {201, 412, 500, 0}

\* renameAsset, lines 314-321: a failed source probe ends the call
SourceProbeError(st) ==
    IF Is2xx(st) THEN <<>>
    ELSE IF st = 404 THEN <<"Asset not found at path">>
    ELSE AxiosMessage(st)

\* A plausible slip: any error of the destination probe but not-found ends
\* the call.
DestinationProbeErrorStrict(st) ==
    IF Is2xx(st) THEN <<"Asset already exists at target path">>
    ELSE IF st = 404 THEN <<>>
    ELSE AxiosMessage(st)

\* renameAsset, lines 324-335: the error the destination probe ends the
\* call with, or none
DestinationProbeError(st) ==
    IF Is2xx(st) THEN <<"Asset ", "already exists", " at target path">>
    ELSE IF st = 404 THEN <<>>
    ELSE IF Includes(AxiosMessage(st), <<"already exists">>) THEN AxiosMessage(st)
    ELSE <<>>

RenameFailure(message) == Thrown(<<"Failed to rename asset: ">> \o message)

RenameInit ==
    /\ fn = "renameAsset"
    /\ input \in [assetPath : AssetPathInputs, newName : NewNameInputs]
    /\ output = NoOutput
    /\ trace = <<>>

\* renameAsset, lines 295-311
RenameValidate ==
    /\ fn = "renameAsset"
    /\ IF RenameValidationError(input.assetPath, input.newName) # <<>>
       THEN /\ fn' = "done"
            /\ output' = RenameFailure(RenameValidationError(input.assetPath, input.newName))
       ELSE fn' = "probeSource" /\ UNCHANGED output
    /\ UNCHANGED <<input, trace>>
    /\ UNCHANGED othersVars

\* renameAsset, lines 313-321: HEAD assetPath
RenameProbeSource ==
    /\ fn = "probeSource"
    /\ \E st \in ProbeStatuses :
          /\ trace' = Append(trace, Request("HEAD", input.assetPath.v, st))
          /\ IF SourceProbeError(st) # <<>>
             THEN fn' = "done" /\ output' = RenameFailure(SourceProbeError(st))
             ELSE fn' = "probeDestination" /\ UNCHANGED output
    /\ UNCHANGED input
    /\ UNCHANGED othersVars

\* renameAsset, lines 323-335: HEAD newPath
RenameProbeDestination ==
    /\ fn = "probeDestination"
    /\ \E st \in ProbeStatuses :
          /\ trace' = Append(trace, Request("HEAD",
                                RenameNewPath(input.assetPath.v, input.newName.v), st))
          /\ IF DestinationProbeError(st) # <<>>
             THEN fn' = "done" /\ output' = RenameFailure(DestinationProbeError(st))
             ELSE fn' = "move" /\ UNCHANGED output
    /\ UNCHANGED input
    /\ UNCHANGED othersVars

\* renameAsset, lines 337-360: POST assetPath?:operation=move&:dest=newPath
RenameMove ==
    /\ fn = "move"
    /\ \E st \in MoveStatuses :
          /\ trace' = Append(trace, Request("POST", input.assetPath.v, st))
          /\ output' = IF Is2xx(st)
                        THEN Returned(RenameNewPath(input.assetPath.v, input.newName.v))
                        ELSE RenameFailure(AxiosMessage(st))
    /\ fn' = "done"
    /\ UNCHANGED input
    /\ UNCHANGED othersVars

RenameNext == RenameValidate \/ RenameProbeSource \/ RenameProbeDestination \/ RenameMove
InitRename == OthersIdle /\ RenameInit
SpecRename == InitRename /\ [][RenameNext]_vars

UnderDam ==
    /\ input.assetPath.def
    /\ Len(input.assetPath.v) >= 13
    /\ SubSeq(input.assetPath.v, 1, 13) = <<"/", "c", "o", "n", "t", "e", "n", "t", "/", "d", "a", "m", "/">>
Moves == SelectSeq(trace, LAMBDA r : r.method = "POST")

\* C16: renameAsset issues no request at all when assetPath is not under
\* /content/dam/; otherwise it issues its requests only in the order
\* source-existence probe, destination-existence probe, move, with at most
\* one move; the move is never issued when the source probe reports
\* not-found or the destination probe finds an existing asset, and it is
\* still issued when the destination probe fails with any other error.
C16_ProbesThenAtMostOneMove ==
    /\ ~UnderDam => trace = <<>>
    /\ Len(trace) <= 3
    /\ Len(Moves) <= 1
    /\ Len(trace) >= 1 => trace[1].method = "HEAD" /\ trace[1].url = input.assetPath.v
    /\ Len(trace) >= 2 =>
          /\ trace[2].method = "HEAD"
          /\ trace[2].url = RenameNewPath(input.assetPath.v, input.newName.v)
    /\ Len(trace) >= 3 => trace[3].method = "POST" /\ trace[3].url = input.assetPath.v
    /\ (Len(trace) >= 1 /\ trace[1].status = 404) => Moves = <<>> /\ Len(trace) = 1
    /\ (Len(trace) >= 2 /\ Is2xx(trace[2].status)) => Moves = <<>> /\ Len(trace) = 2
    /\ (fn = "done" /\ Len(trace) >= 2 /\ ~Is2xx(trace[2].status)) => Len(Moves) = 1

\* The destination probe failed with a server error and the asset was moved.
C16_Witness ==
    /\ fn = "done"
    /\ Len(trace) = 3
    /\ trace[2].status = 500
    /\ trace[3].method = "POST"
    /\ output.status = "ok"

\* A path that only looks like the asset root was turned down without any
\* request.
RenameRejectedOutsideDam ==
    /\ fn = "done"
    /\ input.assetPath = Str(LookalikeAssetPath)
    /\ input.newName = Str(NewAssetName)
    /\ output.status = "error"
    /\ trace = <<>>

(***************************************************************************)
(* Invocations of main sharing one process.  JavaScript runs one           *)
(* invocation at a time and switches only where a function awaits, so each *)
(* action below is the code of one invocation between two awaits.          *)
(***************************************************************************)
NumInvocations == 2
Invocations == 1..NumInvocations

InvMethodInputs ==
    {MethodStr(<<"g","e","t">>), MethodStr(<<"O","P","T","I","O","N","S">>),
     MethodStr(<<"P","O","S","T">>), MethodStr(<<"p","u","t">>)}
InvBodyInputs == {BodyObject("request"), BodyString("invalid", "invalid")}
\* The answers of the transport told apart here: finished with res.end or
\* without it.
InvTransportStatuses == {200}
InvFinishOps == {"end", "json"}
\* Only a POST reads its body, so the other methods come with one body.
InvParamInputs ==
    {p \in [method : InvMethodInputs, body : InvBodyInputs,
            LOG_LEVEL : LogLevelInputs] :
        RouteOf(p.method) = "post" \/ p.body = BodyObject("request")}

\* The level of the logger main creates from an invocation's parameters:
\* params.LOG_LEVEL || 'info'
LevelOf(params) == IF Truthy(params.LOG_LEVEL) THEN "debug" ELSE "info"

\* One call on the SDK: a constructor (newServer, newTransport) or a method
\* (connect, handleRequest), the invocation that made it and the instances
\* it involves (0: none).  Instances are numbered in creation order.
SdkCall(i, opName, srv, tr) ==
    [by |-> i, op |-> opName, server |-> srv, transport |-> tr]
Constructions ==
    SelectSeq(calls, LAMBDA c : c.op \in {"newServer", "newTransport"})
FreshInstance == Len(Constructions) + 1

\* A plausible slip: one server is built on first use, kept at module level
\* and handed to every later invocation.
CreateMcpServerOnce(i) ==
    LET servers == SelectSeq(calls, LAMBDA c : c.op = "newServer")
    IN  IF servers = <<>>
        THEN SdkCall(i, "newServer", FreshInstance, 0)
        ELSE SdkCall(i, "newServer", servers[1].server, 0)

\* createMcpServer(): new McpServer(...), a new instance at every call.
CreateMcpServer(i) == SdkCall(i, "newServer", FreshInstance, 0)

\* An invocation's frame: its position, the levels of the loggers it has
\* logged through, its server and transport constants, its response shim
\* and the response it returned.
NewFrame ==
    [pc |-> "start", logged |-> {}, server |-> 0, transport |-> 0,
     res |-> CreateCompatibleResponse, response |-> NoResponse]

InvInit ==
    /\ invParams \in [Invocations -> InvParamInputs]
    /\ inv = [i \in Invocations |-> NewFrame]
    /\ moduleLogger = "null"
    /\ calls = <<>>

\* The frame of an invocation that returns r after logging through the
\* logger the module-level handle holds at that moment.
ReturnedFrame(f, through, r) ==
    [f EXCEPT !.pc = "returned", !.logged = @ \cup {through}, !.response = r]

\* main from its first line to its first await (lines 324-356, and for POST
\* handleMcpRequest lines 229-246): the logger is created and assigned to
\* the module-level handle, the method is routed, and a POST builds the
\* server, the request object and the transport and calls server.connect.
InvStart(i) ==
    /\ inv[i].pc = "start"
    /\ LET params == invParams[i]
           own == LevelOf(params)
           route == RouteOf(params.method)
           f == inv[i]
       IN  \/ \* Core.Logger throws: 500 without logging, handle untouched
              /\ inv' = [inv EXCEPT ![i] =
                            [f EXCEPT !.pc = "returned",
                                      !.response = LoggerCreationError]]
              /\ UNCHANGED <<moduleLogger, calls>>
           \/ /\ route # "post"
              /\ moduleLogger' = own
              /\ inv' = [inv EXCEPT ![i] = ReturnedFrame(f, own,
                            CASE route = "get" -> HandleHealthCheck
                              [] route = "options" -> HandleOptionsRequest
                              [] route = "throw" -> MainCatchResponse
                              [] OTHER -> MethodNotAllowed)]
              /\ UNCHANGED calls
           \/ \* POST, createMcpServer throws in the constructor (no
              \* instance) or while registering (an instance nobody holds)
              /\ route = "post"
              /\ moduleLogger' = own
              /\ inv' = [inv EXCEPT ![i] = ReturnedFrame(f, own, MainCatchResponse)]
              /\ \E built \in BOOLEAN :
                    calls' = IF built THEN Append(calls, CreateMcpServer(i))
                             ELSE calls
           \/ \* POST, the request object or the transport cannot be built
              /\ route = "post"
              /\ moduleLogger' = own
              /\ inv' = [inv EXCEPT ![i] =
                            [ReturnedFrame(f, own, MainCatchResponse)
                                EXCEPT !.server = CreateMcpServer(i).server]]
              /\ calls' = Append(calls, CreateMcpServer(i))
           \/ \* POST, everything is built and server.connect is awaited
              /\ route = "post"
              /\ ParseRequestBody(params.body) # "throw"
              /\ moduleLogger' = own
              /\ LET srv == CreateMcpServer(i)
                     tr == FreshInstance + 1
                 IN  /\ inv' = [inv EXCEPT ![i] =
                                   [f EXCEPT !.pc = "connecting",
                                             !.logged = @ \cup {own},
                                             !.server = srv.server,
                                             !.transport = tr]]
                     /\ calls' = calls \o
                                   << srv,
                                      SdkCall(i, "newTransport", 0, tr),
                                      SdkCall(i, "connect", srv.server, tr) >>
    /\ UNCHANGED invParams
    /\ UNCHANGED <<sanVars, credVars, mainVars, siteVars, callVars>>

\* handleMcpRequest resumed after await server.connect(transport), line
\* 246.  Resolved: res.end is wrapped and transport.handleRequest(req, res,
\* req.body) is called and awaited (249-261).  Rejected: the catch block
\* throws its ReferenceError and the catch of main logs through the
\* module-level handle as it is now (378-379) and answers 500.
InvConnected(i) ==
    /\ inv[i].pc = "connecting"
    /\ LET f == inv[i]
       IN  \/ /\ inv' = [inv EXCEPT ![i] = [f EXCEPT !.pc = "handling"]]
              /\ calls' = Append(calls,
                             SdkCall(i, "handleRequest", f.server, f.transport))
           \/ /\ inv' = [inv EXCEPT ![i] =
                            ReturnedFrame(f, moduleLogger, MainCatchResponse)]
              /\ UNCHANGED calls
    /\ UNCHANGED <<invParams, moduleLogger>>
    /\ UNCHANGED <<sanVars, credVars, mainVars, siteVars, callVars>>

\* The transport answers: it writes into the shim, whose write, end, json
\* and send log through the module-level handle (lines 135, 142, 151, 157),
\* and handleRequest resolves; or handleRequest rejects.
InvHandled(i) ==
    /\ inv[i].pc = "handling"
    /\ LET f == inv[i]
       IN  \/ \E st \in InvTransportStatuses, fin \in InvFinishOps :
                 inv' = [inv EXCEPT ![i] =
                            [f EXCEPT !.pc = "completing",
                                      !.logged = @ \cup {moduleLogger},
                                      !.res = [statusCode |-> st,
                                               body |-> <<"answer">>,
                                               headersSent |-> TRUE,
                                               ended |-> (fin = "end")]]]
           \/ inv' = [inv EXCEPT ![i] =
                         ReturnedFrame(f, moduleLogger, MainCatchResponse)]
    /\ UNCHANGED <<invParams, moduleLogger, calls>>
    /\ UNCHANGED <<sanVars, credVars, mainVars, siteVars, callVars>>

\* handleMcpRequest resumed after await responseComplete (264-276), which
\* resolves only once res.end was called: it logs (273, and 173 inside
\* getResult) and returns the captured result.
InvComplete(i) ==
    /\ inv[i].pc = "completing"
    /\ inv[i].res.ended
    /\ inv' = [inv EXCEPT ![i] =
                  ReturnedFrame(inv[i], moduleLogger,
                                [statusCode |-> inv[i].res.statusCode,
                                 headers |-> "cors+set",
                                 body |-> PlainBody("captured")])]
    /\ UNCHANGED <<invParams, moduleLogger, calls>>
    /\ UNCHANGED <<sanVars, credVars, mainVars, siteVars, callVars>>

InvStartSome == \E i \in Invocations : InvStart(i)
InvConnectedSome == \E i \in Invocations : InvConnected(i)
InvHandledSome == \E i \in Invocations : InvHandled(i)
InvCompleteSome == \E i \in Invocations : InvComplete(i)

InvNext ==
    \/ InvStartSome
    \/ InvConnectedSome
    \/ InvHandledSome
    \/ InvCompleteSome

InitInvocations ==
    SanIdle /\ CredIdle /\ MainIdle /\ SiteIdle /\ CallIdle /\ InvInit
SpecInvocations == InitInvocations /\ [][InvNext]_vars

(***************************************************************************)
(* Claims about interleaved invocations                                    *)
(***************************************************************************)
IsPostInvocation(i) == RouteOf(invParams[i].method) = "post"
CallsBy(i) == SelectSeq(calls, LAMBDA c : c.by = i)
ServersCreatedBy(i) == SelectSeq(CallsBy(i), LAMBDA c : c.op = "newServer")
TransportsCreatedBy(i) == SelectSeq(CallsBy(i), LAMBDA c : c.op = "newTransport")
InstancesIn(c) == {c.server, c.transport} \ {0}
Answered(i) ==
    inv[i].pc = "returned" /\ inv[i].response.body = PlainBody("captured")

\* No instance appears in calls of two invocations.
NoInstanceShared ==
    \A k, l \in 1..Len(calls) :
        InstancesIn(calls[k]) \cap InstancesIn(calls[l]) # {}
            => calls[k].by = calls[l].by

\* Every request an invocation hands to a transport goes to the transport
\* it created, after it connected the server it created to that transport.
ConnectedBeforeHandling(i) ==
    LET mine == CallsBy(i)
    IN  \A k \in 1..Len(mine) :
            mine[k].op \in {"connect", "handleRequest"} =>
                /\ Len(ServersCreatedBy(i)) = 1
                /\ Len(TransportsCreatedBy(i)) = 1
                /\ mine[k].server = ServersCreatedBy(i)[1].server
                /\ mine[k].transport = TransportsCreatedBy(i)[1].transport
                /\ \E s, t \in 1..(k - 1) :
                      mine[s].op = "newServer" /\ mine[t].op = "newTransport"
                /\ mine[k].op = "handleRequest" =>
                      \E c \in 1..(k - 1) :
                          /\ mine[c].op = "connect"
                          /\ mine[c].server = mine[k].server
                          /\ mine[c].transport = mine[k].transport

\* C17 as stated: every POST invocation that has returned created exactly
\* one server and exactly one transport, connected them before handing the
\* request over, no instance is used by two invocations, and the other
\* invocations created and used none.
C17_ExactlyOneServerAndTransportPerPost ==
    /\ NoInstanceShared
    /\ \A i \in Invocations :
          /\ ConnectedBeforeHandling(i)
          /\ ~IsPostInvocation(i) => CallsBy(i) = <<>>
          /\ (IsPostInvocation(i) /\ inv[i].pc = "returned") =>
                /\ Len(ServersCreatedBy(i)) = 1
                /\ Len(TransportsCreatedBy(i)) = 1

\* C17 as the code has it: a POST invocation creates at most one server and
\* at most one transport, and exactly one of each once it connects them or
\* is answered by the transport; it connects its server to its transport
\* before handing the request to that transport; no instance is used by two
\* invocations; GET, OPTIONS and rejected-method invocations create none.
C17_AtMostOnePerPostNeverShared ==
    /\ NoInstanceShared
    /\ \A i \in Invocations :
          /\ ConnectedBeforeHandling(i)
          /\ ~IsPostInvocation(i) => CallsBy(i) = <<>>
          /\ Len(ServersCreatedBy(i)) <= 1
          /\ Len(TransportsCreatedBy(i)) <= 1
          /\ Answered(i) =>
                /\ Len(ServersCreatedBy(i)) = 1
                /\ Len(TransportsCreatedBy(i)) = 1
                /\ \E k \in 1..Len(calls) :
                      calls[k].by = i /\ calls[k].op = "handleRequest"

\* Two POST invocations interleave (the second starts while the first
\* awaits) and both are answered, each through its own pair of instances.
C17_Witness ==
    /\ \A i \in Invocations : IsPostInvocation(i) /\ Answered(i)
    /\ Len(calls) = 4 * NumInvocations
    /\ calls[1].by # calls[4].by
    /\ Cardinality(UNION {InstancesIn(calls[k]) : k \in 1..Len(calls)})
          = 2 * NumInvocations

\* A POST invocation with an unparseable body has returned having created a
\* server and no transport.
PostReturnedWithoutTransport ==
    \E i \in Invocations :
        /\ IsPostInvocation(i)
        /\ inv[i].pc = "returned"
        /\ Len(ServersCreatedBy(i)) = 1
        /\ TransportsCreatedBy(i) = <<>>
        /\ ParseRequestBody(invParams[i].body) = "throw"

\* The responses main can return for these parameters when it is the only
\* invocation in the process.
OwnResponses(params) ==
    LET route == RouteOf(params.method)
    IN  {LoggerCreationError} \cup
        CASE route = "get" -> {HandleHealthCheck}
          [] route = "options" -> {HandleOptionsRequest}
          [] route = "throw" -> {MainCatchResponse}
          [] route = "post" ->
               {MainCatchResponse} \cup
               (IF ParseRequestBody(params.body) = "throw" THEN {}
                ELSE {[statusCode |-> st, headers |-> "cors+set",
                       body |-> PlainBody("captured")] :
                          st \in InvTransportStatuses})
          [] OTHER -> {MethodNotAllowed}

\* The response of every invocation is one its own parameters allow.
ResponseFromOwnParameters ==
    \A i \in Invocations :
        inv[i].pc = "returned" => inv[i].response \in OwnResponses(invParams[i])

\* C18: when invocations interleave, each one's response depends only on
\* its own parameters, and every logger an invocation logs through is the
\* one configured from its own LOG_LEVEL.
C18_InvocationsShareNoState ==
    /\ ResponseFromOwnParameters
    /\ \A i \in Invocations : inv[i].logged \subseteq {LevelOf(invParams[i])}

\* An invocation with the default level was answered after logging through
\* the debug logger that another invocation stored in the module-level
\* handle while the first one was awaiting.
LoggedThroughAnotherInvocationsLogger ==
    \E i, j \in Invocations :
        /\ i # j
        /\ LevelOf(invParams[i]) = "info"
        /\ LevelOf(invParams[j]) = "debug"
        /\ Answered(i)
        /\ inv[i].logged = {"info", "debug"}

(***************************************************************************)
(* The response shim (createCompatibleResponse).  While a shim is in use,  *)
(* input holds the variables its closures capture (statusCode, headers,    *)
(* body, headersSent), trace the calls made on it and output what          *)
(* getResult returned.                                                     *)
(***************************************************************************)
\* A chunk handed to write, end or send: absent, a string, or an object, v
\* being the members of the object.
NoChunk == [type |-> "undefined", v |-> <<>>]
StringChunk(str) == [type |-> "string", v |-> str]
ObjectChunk(members) == [type |-> "object", v |-> members]

\* if (chunk): an absent chunk and the empty string are falsy, every object
\* is truthy.
ChunkTruthy(chunk) ==
    chunk.type = "object" \/ (chunk.type = "string" /\ chunk.v # <<>>)

\* JSON.stringify of an object
JsonStringify(members) == <<"{">> \o members \o <<"}">>

\* typeof chunk === 'string' ? chunk : JSON.stringify(chunk)
ChunkText(chunk) ==
    IF chunk.type = "string" THEN chunk.v ELSE JsonStringify(chunk.v)

\* A plausible slip: write and end assign the chunk, as send does.
BodyAssigned(text, chunk) ==
    IF ChunkTruthy(chunk) THEN ChunkText(chunk) ELSE text

\* body += ... under if (chunk), lines 133-134 and 140-141
BodyAppended(text, chunk) ==
    IF ChunkTruthy(chunk) THEN text \o ChunkText(chunk) ELSE text

\* { ...headers, ...headerObj }: the entries of headerObj over those of
\* headers.
Spread(headers, headerObj) ==
    [n \in DOMAIN headers \cup DOMAIN headerObj |->
        IF n \in DOMAIN headerObj THEN headerObj[n] ELSE headers[n]]

NoHeaders == [n \in {} |-> ""]
Header(name, value) == [n \in {name} |-> value]

\* The headers a shim starts with, lines 109-115.
DefaultCorsHeaders ==
    [n \in {"Access-Control-Allow-Origin", "Access-Control-Allow-Methods",
            "Access-Control-Allow-Headers", "Access-Control-Expose-Headers",
            "Access-Control-Max-Age"} |->
        CASE n = "Access-Control-Allow-Origin" -> "*"
          [] n = "Access-Control-Allow-Methods" -> "GET, POST, OPTIONS, DELETE"
          [] n = "Access-Control-Max-Age" -> "86400"
          [] OTHER -> "Content-Type, ..."]

\* One call on the shim and its arguments.
ShimCall(opName, code, headerObj, chunk) ==
    [op |-> opName, code |-> code, headers |-> headerObj, chunk |-> chunk]

MaxShimCalls == 3
ShimStatusCodes == {202, 404}
ShimHeaderNames == {"Content-Type", "Access-Control-Allow-Origin"}
ShimHeaderValues == {"application/json", "text/event-stream"}
ShimHeaderObjects ==
    {NoHeaders,
     Header("Content-Type", "text/event-stream"),
     Spread(Header("mcp-session-id", "s1"),
            Header("Access-Control-Max-Age", "0"))}
ShimChunks ==
    {NoChunk, StringChunk(<<>>), StringChunk(<<"a">>), StringChunk(<<"b", "c">>),
     ObjectChunk(<<>>)}

ShimInit ==
    /\ fn = "createCompatibleResponse"
    /\ input = [statusCode |-> 200, headers |-> DefaultCorsHeaders,
                body |-> <<>>, headersSent |-> FALSE]
    /\ output = NoOutput
    /\ trace = <<>>

ShimOpen == fn = "createCompatibleResponse" /\ Len(trace) < MaxShimCalls

\* status: code => { statusCode = code; return res }
ShimStatus ==
    /\ ShimOpen
    /\ \E code \in ShimStatusCodes :
          /\ input' = [input EXCEPT !.statusCode = code]
          /\ trace' = Append(trace, ShimCall("status", code, NoHeaders, NoChunk))
    /\ UNCHANGED <<fn, output>>
    /\ UNCHANGED othersVars

\* setHeader: (name, value) => { headers[name] = value; return res }
ShimSetHeader ==
    /\ ShimOpen
    /\ \E name \in ShimHeaderNames, value \in ShimHeaderValues :
          /\ input' = [input EXCEPT
                          !.headers = Spread(@, Header(name, value))]
          /\ trace' = Append(trace,
                         ShimCall("setHeader", 0, Header(name, value), NoChunk))
    /\ UNCHANGED <<fn, output>>
    /\ UNCHANGED othersVars

\* writeHead, lines 124-129
ShimWriteHead ==
    /\ ShimOpen
    /\ \E code \in ShimStatusCodes, headerObj \in ShimHeaderObjects :
          /\ input' = [input EXCEPT !.statusCode = code,
                                    !.headers = Spread(@, headerObj),
                                    !.headersSent = TRUE]
          /\ trace' = Append(trace, ShimCall("writeHead", code, headerObj, NoChunk))
    /\ UNCHANGED <<fn, output>>
    /\ UNCHANGED othersVars

\* write, lines 132-138
ShimWrite ==
    /\ ShimOpen
    /\ \E chunk \in ShimChunks :
          /\ input' = [input EXCEPT !.body = BodyAppended(@, chunk)]
          /\ trace' = Append(trace, ShimCall("write", 0, NoHeaders, chunk))
    /\ UNCHANGED <<fn, output>>
    /\ UNCHANGED othersVars

\* end, lines 139-146
ShimEnd ==
    /\ ShimOpen
    /\ \E chunk \in ShimChunks :
          /\ input' = [input EXCEPT !.body = BodyAppended(@, chunk),
                                    !.headersSent = TRUE]
          /\ trace' = Append(trace, ShimCall("end", 0, NoHeaders, chunk))
    /\ UNCHANGED <<fn, output>>
    /\ UNCHANGED othersVars

\* json, lines 147-153: the body is replaced by the serialised object.
ShimJson ==
    /\ ShimOpen
    /\ \E obj \in {ObjectChunk(<<"k">>)} :
          /\ input' = [input EXCEPT
                          !.headers = Spread(@, Header("Content-Type",
                                                       "application/json")),
                          !.body = ChunkText(obj),
                          !.headersSent = TRUE]
          /\ trace' = Append(trace, ShimCall("json", 0, NoHeaders, obj))
    /\ UNCHANGED <<fn, output>>
    /\ UNCHANGED othersVars

\* send, lines 154-161: the body is replaced by the data.
ShimSend ==
    /\ ShimOpen
    /\ \E data \in {NoChunk, StringChunk(<<"a">>)} :
          /\ input' = [input EXCEPT
                          !.body = IF ChunkTruthy(data) THEN ChunkText(data)
                                   ELSE @,
                          !.headersSent = TRUE]
          /\ trace' = Append(trace, ShimCall("send", 0, NoHeaders, data))
    /\ UNCHANGED <<fn, output>>
    /\ UNCHANGED othersVars

\* getResult, lines 172-175
ShimGetResult ==
    /\ fn = "createCompatibleResponse"
    /\ fn' = "getResult"
    /\ output' = Returned([statusCode |-> input.statusCode,
                           headers |-> input.headers,
                           body |-> input.body])
    /\ UNCHANGED <<input, trace>>
    /\ UNCHANGED othersVars

ShimNext ==
    \/ ShimStatus
    \/ ShimSetHeader
    \/ ShimWriteHead
    \/ ShimWrite
    \/ ShimEnd
    \/ ShimJson
    \/ ShimSend
    \/ ShimGetResult

InitShim == OthersIdle /\ ShimInit
SpecShim == InitShim /\ [][ShimNext]_vars

(***************************************************************************)
(* Claims about the response shim                                          *)
(***************************************************************************)
RECURSIVE StatusSetBy(_), HeadersSetBy(_), ChunksPassedIn(_)
\* The status code most recently set by a call of the sequence, 200 if none.
StatusSetBy(callSeq) ==
    IF callSeq = <<>> THEN 200
    ELSE LET last == callSeq[Len(callSeq)]
         IN  IF last.op \in {"status", "writeHead"} THEN last.code
             ELSE StatusSetBy(SubSeq(callSeq, 1, Len(callSeq) - 1))

\* The default CORS headers overlaid, in call order, by every header set.
HeadersSetBy(callSeq) ==
    IF callSeq = <<>> THEN DefaultCorsHeaders
    ELSE LET last == callSeq[Len(callSeq)]
             before == HeadersSetBy(SubSeq(callSeq, 1, Len(callSeq) - 1))
         IN  [n \in DOMAIN before \cup DOMAIN last.headers |->
                 IF n \in DOMAIN last.headers THEN last.headers[n]
                 ELSE before[n]]

\* The chunks passed to write and end, concatenated in call order: a string
\* chunk as it is, an object chunk as its JSON text.
ChunksPassedIn(callSeq) ==
    IF callSeq = <<>> THEN <<>>
    ELSE LET first == callSeq[1]
             text == IF first.op \in {"write", "end"} /\ first.chunk.type # "undefined"
                     THEN ChunkText(first.chunk) ELSE <<>>
         IN  text \o ChunksPassedIn(Tail(callSeq))

OnlyCapturingCalls ==
    \A k \in 1..Len(trace) :
        trace[k].op \in {"status", "setHeader", "writeHead", "write", "end"}

\* C19: after any sequence of status, setHeader, writeHead, write and end
\* calls, getResult returns the status most recently set (200 if none), the
\* default CORS headers overlaid by every header set, and the concatenation
\* in call order of every chunk passed to write and end.
C19_GetResultReportsWhatWasWritten ==
    (fn = "getResult" /\ OnlyCapturingCalls) =>
        /\ output.status = "ok"
        /\ output.value.statusCode = StatusSetBy(trace)
        /\ output.value.headers = HeadersSetBy(trace)
        /\ output.value.body = ChunksPassedIn(trace)

\* getResult after writeHead with a header that replaces a default one, a
\* write and an end that both carry text.
C19_Witness ==
    /\ fn = "getResult"
    /\ Len(trace) = 3
    /\ trace[1].op = "writeHead" /\ trace[2].op = "write" /\ trace[3].op = "end"
    /\ output.value.statusCode = 404
    /\ output.value.headers["Access-Control-Max-Age"] = "0"
    /\ output.value.headers["Access-Control-Allow-Origin"] = "*"
    /\ output.value.body = <<"b", "c", "{", "}">>

\* After json or send the body is what that call assigned, not the chunks
\* written before it.
BodyReplacedByJsonOrSend ==
    /\ fn = "getResult"
    /\ ~OnlyCapturingCalls
    /\ output.value.body # ChunksPassedIn(trace)

(***************************************************************************)
(* The request object (createCompatibleRequest, parseRequestBody)          *)
(***************************************************************************)
SessionHeader == "mcp-session-id"

\* An invocation's __ow_headers: absent, or a bag of header values.
NoHeaderBag == [def |-> FALSE, v |-> NoHeaders]
HeaderBag(entries) == [def |-> TRUE, v |-> entries]

RequestMethodInputs ==
    {NoMethod, MethodNumber, MethodStr(<<>>), MethodStr(<<"p","o","s","t">>),
     MethodStr(<<"P","O","S","T">>), MethodStr(<<"P","o","s","T">>),
     MethodStr(<<"d","e","l","e","t","e">>)}
RequestBodyInputs == BodyInputs \cup {BodyString("decoded", "request")}
SessionFieldInputs == {Undef, Str(<<>>), Str(<<"A">>)}
HeaderBagInputs ==
    {NoHeaderBag, HeaderBag(NoHeaders),
     HeaderBag(Header(SessionHeader, Str(<<"A">>))),
     HeaderBag(Header(SessionHeader, Str(<<"B">>))),
     HeaderBag(Header("content-type", Str(<<"text/plain">>)))}

\* params.__ow_headers?.['mcp-session-id']
BagSessionId(bag) ==
    IF bag.def /\ SessionHeader \in DOMAIN bag.v THEN bag.v[SessionHeader]
    ELSE Undef

\* The headers literal of lines 91-96: the three fixed entries, then the
\* entries of the header bag spread over them.
RequestHeaders(params) ==
    Spread([n \in {"content-type", "accept", SessionHeader} |->
               CASE n = "content-type" -> Str(<<"application/json">>)
                 [] n = "accept" -> Str(<<"application/json, text/event-stream">>)
                 [] OTHER -> OrElse(params.session, BagSessionId(params.headers))],
           params.headers.v)

\* (params.__ow_method || 'GET').toUpperCase(), or "throw" when the method
\* is a truthy value without toUpperCase.
RequestMethod(method) ==
    IF method.type = "string" /\ method.v # <<>> THEN ToUpperCase(method.v)
    ELSE IF method.type = "number" THEN <<"throw">>
    ELSE <<"G","E","T">>

RequestInit ==
    /\ fn = "createCompatibleRequest"
    /\ input \in [method : RequestMethodInputs, session : SessionFieldInputs,
                  headers : HeaderBagInputs, body : RequestBodyInputs]
    /\ output = NoOutput
    /\ trace = <<>>

\* createCompatibleRequest(params), lines 86-102: the body is parsed first
\* (parseRequestBody rethrows what JSON.parse throws), then the object
\* literal is evaluated.
RequestCall ==
    /\ fn = "createCompatibleRequest"
    /\ fn' = "done"
    /\ output' =
          IF ParseRequestBody(input.body) = "throw"
          THEN Thrown(<<"Failed to parse request body">>)
          ELSE IF RequestMethod(input.method) = <<"throw">>
          THEN Thrown(<<"toUpperCase is not a function">>)
          ELSE Returned([method |-> RequestMethod(input.method),
                         headers |-> RequestHeaders(input),
                         body |-> ParseRequestBody(input.body)])
    /\ UNCHANGED <<input, trace>>
    /\ UNCHANGED othersVars

RequestNext == RequestCall
InitRequest == OthersIdle /\ RequestInit
SpecRequest == InitRequest /\ [][RequestNext]_vars

(***************************************************************************)
(* Claims about the request object                                         *)
(***************************************************************************)
RequestBuilt == fn = "done" /\ output.status = "ok"

\* The method and the body of the request object are as stated.
RequestMethodAndBodyAsStated ==
    RequestBuilt =>
        /\ (input.method.type = "string" /\ input.method.v # <<>>) =>
              output.value.method = ToUpperCase(input.method.v)
        /\ output.value.body =
              (CASE input.body.type \in {"undefined", "empty-string"} -> "null"
                 [] input.body.type = "object" -> input.body.v
                 [] OTHER -> IF input.body.b64 # "invalid" THEN input.body.b64
                             ELSE input.body.direct)

\* C20: the request object's method is the upper-cased invocation method;
\* its mcp-session-id header is the explicit mcp-session-id field when that
\* is given and otherwise the header bag's; its body is null without a
\* body, the given value when that is not a string, and otherwise parsed
\* from the base64 decoding, falling back to the string itself.
C20_RequestObjectAsStated ==
    /\ RequestMethodAndBodyAsStated
    /\ RequestBuilt =>
          output.value.headers[SessionHeader] =
              (IF Truthy(input.session) THEN input.session
               ELSE BagSessionId(input.headers))

\* What the code does: the header bag's session id wins whenever the bag
\* has one, the explicit field is used only otherwise (when not empty).
SessionIdFromHeaderBagFirst ==
    RequestBuilt =>
        output.value.headers[SessionHeader] =
            (IF BagSessionId(input.headers).def THEN BagSessionId(input.headers)
             ELSE IF Truthy(input.session) THEN input.session
             ELSE Undef)

\* The explicit field says A, the header bag says B, the request has B.
ExplicitSessionIdOverridden ==
    /\ RequestBuilt
    /\ input.session = Str(<<"A">>)
    /\ BagSessionId(input.headers) = Str(<<"B">>)
    /\ output.value.headers[SessionHeader] = Str(<<"B">>)

(***************************************************************************)
(* The requests of createMicrosite, issue and completion apart.  trace     *)
(* holds one event when a request is sent and one when its promise         *)
(* settles; a request is in flight between the two.                        *)
(***************************************************************************)
Issued(via, page) == [kind |-> "issue", via |-> via, page |-> page, status |-> 0]
Completed(via, page, st) ==
    [kind |-> "complete", via |-> via, page |-> page, status |-> st]

IssuesIn(t, via) == SelectSeq(t, LAMBDA e : e.kind = "issue" /\ e.via = via)
CompletionsIn(t, via) == SelectSeq(t, LAMBDA e : e.kind = "complete" /\ e.via = via)

\* The page requests sent and not yet settled, by page name.
PagesInFlight(t) ==
    {e.page : e \in Range(IssuesIn(t, "createPage"))}
        \ {e.page : e \in Range(CompletionsIn(t, "createPage"))}

\* A plausible slip: the page requests are started without awaiting each
\* one (the loop body collected into Promise.all).
NextPageMayStartUnawaited(t) == TRUE

\* await this.createPage(...), line 578: the loop goes on to the next page
\* only when the request of the previous one has settled.
NextPageMayStart(t) == PagesInFlight(t) = {}

\* createdPages: the pages whose request succeeded, in settling order.
CreatedPagesIn(t) ==
    LET ok == SelectSeq(CompletionsIn(t, "createPage"), LAMBDA e : Is2xx(e.status))
    IN  [k \in 1..Len(ok) |-> ok[k].page]

\* The answers to a page-create request told apart here (0: no response).
MicrositePageStatuses == {201, 409, 500, 0}

MicrositeInit ==
    /\ fn = "createMicrosite"
    /\ input \in [siteTitle : SiteTitleInputs, pages : PagesInputs]
    /\ output = NoOutput
    /\ trace = <<>>

\* createMicrosite, line 564: this.createSite(...) is called; it throws
\* before any request when the title is missing (lines 500-507), and sends
\* its POST otherwise.
MicrositeIssueSite ==
    /\ fn = "createMicrosite"
    /\ trace = <<>>
    /\ IF SiteTitleMissing(input.siteTitle)
       THEN /\ fn' = "done"
            /\ output' = Thrown(<<"Failed to create microsite: ",
                                  "Failed to create site: ", "siteTitle is required">>)
            /\ UNCHANGED trace
       ELSE /\ trace' = <<Issued("createSite", <<>>)>>
            /\ UNCHANGED <<fn, output>>
    /\ UNCHANGED input
    /\ UNCHANGED othersVars

\* The POST of createSite settles: a failure is rethrown by createSite and
\* by the catch of createMicrosite (599-601); a success enters the loop.
MicrositeSiteSettles ==
    /\ fn = "createMicrosite"
    /\ trace = <<Issued("createSite", <<>>)>>
    /\ \E st \in CreateSiteStatuses :
          /\ trace' = Append(trace, Completed("createSite", <<>>, st))
          /\ IF ~Is2xx(st)
             THEN /\ fn' = "done"
                  /\ output' = Thrown(<<"Failed to create microsite: ",
                                        "Failed to create site: ">> \o AxiosMessage(st))
             ELSE IF PagesOf(input) = <<>>
             THEN fn' = "done" /\ output' = Returned(<<>>)
             ELSE UNCHANGED <<fn, output>>
    /\ UNCHANGED input
    /\ UNCHANGED othersVars

\* createMicrosite, lines 573-582: the next pass of the loop sends the POST
\* of the next page name.
MicrositeIssuePage ==
    /\ fn = "createMicrosite"
    /\ CompletionsIn(trace, "createSite") # <<>>
    /\ NextPageMayStart(trace)
    /\ LET next == Len(IssuesIn(trace, "createPage")) + 1
       IN  /\ next <= Len(PagesOf(input))
           /\ trace' = Append(trace, Issued("createPage", PagesOf(input)[next]))
    /\ UNCHANGED <<fn, input, output>>
    /\ UNCHANGED othersVars

\* A page request settles: a success is pushed on createdPages, a failure
\* is caught and logged (589-591); after the last page the call returns.
MicrositePageSettles ==
    /\ fn = "createMicrosite"
    /\ \E page \in PagesInFlight(trace), st \in MicrositePageStatuses :
          LET after == Append(trace, Completed("createPage", page, st))
          IN  /\ trace' = after
              /\ IF Len(CompletionsIn(after, "createPage")) = Len(PagesOf(input))
                 THEN fn' = "done" /\ output' = Returned(CreatedPagesIn(after))
                 ELSE UNCHANGED <<fn, output>>
    /\ UNCHANGED input
    /\ UNCHANGED othersVars

MicrositeNext ==
    \/ MicrositeIssueSite
    \/ MicrositeSiteSettles
    \/ MicrositeIssuePage
    \/ MicrositePageSettles

InitMicrosite == OthersIdle /\ MicrositeInit
SpecMicrosite == InitMicrosite /\ [][MicrositeNext]_vars

(***************************************************************************)
(* Claims about the order of createMicrosite's requests                    *)
(***************************************************************************)
\* Every request is sent when nothing is in flight and is the next event
\* to settle.
OneRequestAtATime ==
    \A k \in 1..Len(trace) :
        IF k % 2 = 1
        THEN trace[k].kind = "issue"
        ELSE /\ trace[k].kind = "complete"
             /\ trace[k].via = trace[k - 1].via
             /\ trace[k].page = trace[k - 1].page

\* C21: createMicrosite sends one request at a time, each after the one
\* before it has settled: the site-create request first, then the
\* page-create requests in the order of the page names given, one per name
\* by the time it returns; after a failed site-create request no
\* page-create request is sent.
C21_SequentialSiteThenPagesInOrder ==
    /\ OneRequestAtATime
    /\ trace # <<>> => trace[1] = Issued("createSite", <<>>)
    /\ Len(IssuesIn(trace, "createSite")) <= 1
    /\ LET pageIssues == IssuesIn(trace, "createPage")
       IN  /\ Len(pageIssues) <= Len(PagesOf(input))
           /\ \A j \in 1..Len(pageIssues) : pageIssues[j].page = PagesOf(input)[j]
           /\ pageIssues # <<>> =>
                 /\ Len(trace) >= 2
                 /\ trace[2].via = "createSite" /\ Is2xx(trace[2].status)
           /\ (fn = "done" /\ output.status = "ok") =>
                 Len(pageIssues) = Len(PagesOf(input))

\* Two pages were asked for; the first page request failed, the second was
\* sent after that and succeeded, and the call returned.
C21_Witness ==
    /\ fn = "done"
    /\ output = Returned(<<PageNamePool[2]>>)
    /\ Len(trace) = 6
    /\ trace[4] = Completed("createPage", PageNamePool[1], 500)
    /\ trace[5] = Issued("createPage", PageNamePool[2])

\* The site-create request failed and the call threw without a page request.
SiteFailureStopsBeforePages ==
    /\ fn = "done"
    /\ output.status = "error"
    /\ Len(trace) = 2
    /\ PagesOf(input) # <<>>

(***************************************************************************)
(* Claims about the delete phase of aem-create-microsite                   *)
(***************************************************************************)
LastIndex(Test(_)) ==
    IF \E i \in DOMAIN log : Test(log[i])
    THEN CHOOSE i \in DOMAIN log : Test(log[i]) /\ \A j \in (i + 1)..Len(log) : ~Test(log[j])
    ELSE 0
IsSettle(e) == e.kind = "SETTLE"
IsSiteCreateStep(e) == IsSiteCreateCall(e) \/ IsSiteCreate(e)
Deletes == SelectSeq(log, IsDelete)
NotFound(e) == e.status = 404

\* The delete phase of an overwriting call is over.
DeletePhaseOver ==
    /\ op = "tool-create"
    /\ args.overwrite
    /\ Deletes # <<>>
    /\ pc \notin {"structuredDelete", "directDelete"}

\* The delay has been started after the last delete request, and createSite
\* is entered only after it.
SettledAfterLastDelete ==
    \/ pc = "settle" /\ SelectSeq(log, IsSiteCreateStep) = <<>>
    \/ /\ LastIndex(IsSettle) > LastIndex(IsDelete)
       /\ FirstIndex(IsSiteCreateStep) # 0 =>
             FirstIndex(IsSiteCreateStep) > LastIndex(IsSettle)

\* C22: in the overwrite path a not-found answer to the delete counts as a
\* delete that succeeded, and whenever the delete phase ends with a delete
\* that succeeded or found nothing, the settle delay comes after the last
\* delete request and before the site-create request.
C22_NotFoundIsDeletedAndSettles ==
    DeletePhaseOver =>
        LET last == log[LastIndex(IsDelete)]
        IN  (Succeeded(last) \/ NotFound(last)) =>
                /\ loc.deleted
                /\ SettledAfterLastDelete

\* Nothing was at the path: both deletes answered 404, the delay followed
\* and the site was created after it.
C22_Witness ==
    /\ pc = "done"
    /\ op = "tool-create"
    /\ args.overwrite
    /\ toolResult.kind = "success"
    /\ Len(log) >= 5
    /\ IsStructuredDelete(log[1]) /\ NotFound(log[1])
    /\ IsDirectDelete(log[2]) /\ NotFound(log[2])
    /\ IsSettle(log[3])
    /\ IsSiteCreateCall(log[4])
    /\ IsSiteCreate(log[5]) /\ Succeeded(log[5])

Settles == SelectSeq(log, IsSettle)
OverwriteCallOver ==
    op = "tool-create" /\ args.overwrite /\ pc = "done" /\ Deletes # <<>>

\* C29: with overwrite=true the site-create request is issued on every path
\* through the delete phase, at the path the delete requests targeted, and
\* the settle delay is skipped exactly when no delete attempt succeeded or
\* reported not-found; with overwrite=false no delete request is issued.
C29_CreateRequestAfterEveryDeletePhase ==
    /\ OverwriteCallOver =>
          /\ Len(SiteCreates) = 1
          /\ \A k \in 1..Len(Deletes) : Deletes[k].path = SiteCreates[1].path
          /\ Settles = <<>> <=>
                \A k \in 1..Len(Deletes) :
                    ~Succeeded(Deletes[k]) /\ ~NotFound(Deletes[k])
    /\ (op = "tool-create" /\ ~args.overwrite) => Deletes = <<>>

\* What the code does: createSite is called on every path through the
\* delete phase, any request it issues goes to the path of the deletes, and
\* the delay is skipped exactly when the handler's deleted flag stayed false.
OverwriteCreateCalledAfterEveryDeletePhase ==
    /\ OverwriteCallOver =>
          /\ Len(SiteCreateCalls) = 1
          /\ \A k \in 1..Len(Deletes), c \in 1..Len(SiteCreates) :
                Deletes[k].path = SiteCreates[c].path
          /\ Settles = <<>> <=> ~loc.deleted
    /\ (op = "tool-create" /\ ~args.overwrite) => Deletes = <<>>

\* The structured delete answered 404, the low-level delete 403: the delay
\* was skipped although a delete attempt reported not-found.
NotFoundThenForbiddenSkipsSettle ==
    /\ OverwriteCallOver
    /\ Len(Deletes) = 2
    /\ NotFound(Deletes[1])
    /\ Deletes[2].status = 403
    /\ Settles = <<>>
    /\ Len(SiteCreates) = 1

\* Both deletes failed for good and the create request was still issued.
BothDeletesFailedStillCreates ==
    /\ OverwriteCallOver
    /\ Len(Deletes) = 2
    /\ Deletes[1].status = 500 /\ Deletes[2].status = 500
    /\ Settles = <<>>
    /\ Len(SiteCreates) = 1

(***************************************************************************)
(* AEMAssetClient.searchAssets: the query, then the loop over its hits.    *)
(* While the loop runs, output.value holds the results pushed so far.      *)
(***************************************************************************)
TitleKey == "dc:title"
DescriptionKey == "dc:description"

\* The metadata of an asset, an object of string fields; {} when the fetch
\* failed or answered without data.
NoMetadata == [k \in {} |-> <<>>]
MetadataOf(key, value) == [k \in {key} |-> value]

MaxAssets == 2
AssetPool == {OldAssetPath, FolderAssetPath}
HitsInputs == UNION {[1..n -> AssetPool] : n \in 0..MaxAssets}
AssetSearchValueInputs == {Undef, Str(<<>>), Str(<<"a", "b">>)}
AssetReplaceValueInputs == {Undef, Str(<<>>), Str(<<"!">>)}
MetadataFetchStatuses == {200, 401, 404, 500, 0}
MetadataDataInputs ==
    {NoMetadata,
     MetadataOf(TitleKey, <<"A", "b">>),
     MetadataOf(TitleKey, <<"x", "a", "b">>),
     MetadataOf(TitleKey, <<"x">>),
     MetadataOf(TitleKey, <<>>),
     MetadataOf(DescriptionKey, <<"a", "b">>)}

\* A metadata request, the status it was answered with and, for a 200, the
\* object it carried.
MetadataUrl(assetPath) == assetPath \o <<"/jcr:content/metadata.json">>
MetadataRequest(assetPath, st, data) ==
    [method |-> "GET", url |-> MetadataUrl(assetPath), status |-> st, data |-> data]
QueryRequest(st) ==
    [method |-> "GET", url |-> QueryBuilderUrl, status |-> st, data |-> NoMetadata]

\* replaceValuesInMetadata on an object whose values are all strings
ReplaceInFields(metadata, searchValue, replaceValue) ==
    [k \in DOMAIN metadata |-> ReplaceInString(metadata[k], searchValue, replaceValue)]

\* metadata['dc:title'] as a condition: present and not empty
HasTruthyTitle(metadata) == TitleKey \in DOMAIN metadata /\ metadata[TitleKey] # <<>>

\* A plausible slip: an authorization failure of a metadata fetch is
\* rethrown, as it is for the query.
MetadataFailureFatalWhenUnauthorized(st) == st = 401

\* searchAssets, lines 171-179: the catch of a metadata fetch rethrows
\* nothing.
MetadataFailureFatal(st) == FALSE

\* searchAssets, lines 158-196: the result pushed for a hit, given the
\* answer to its metadata request.
AssetResult(assetPath, st, data, searchValue, replaceValue) ==
    LET assetName == LastSegment(assetPath)
        fetched == IF Is2xx(st) THEN data ELSE NoMetadata
        title0 == IF Is2xx(st) /\ HasTruthyTitle(fetched) THEN fetched[TitleKey]
                  ELSE assetName
        replacing == searchValue.def /\ searchValue.v # <<>>
        metadata == IF replacing
                    THEN ReplaceInFields(fetched, searchValue.v,
                                         OrElse(replaceValue, Str(<<>>)).v)
                    ELSE fetched
        title == IF replacing /\ HasTruthyTitle(metadata) THEN metadata[TitleKey]
                 ELSE title0
    IN  [path |-> assetPath, name |-> assetName, title |-> title,
         metadata |-> metadata]

AssetsInit ==
    /\ fn = "searchAssets"
    /\ input \in [hits : [def : BOOLEAN, v : HitsInputs],
                   searchValue : AssetSearchValueInputs,
                   replaceValue : AssetReplaceValueInputs]
    /\ ~input.hits.def => input.hits.v = <<>>
    /\ output = NoOutput
    /\ trace = <<>>

\* searchAssets, lines 110-156 and 200-214: the QueryBuilder request; its
\* failure is rethrown, an answer without hits returns no result.
AssetsQuery ==
    /\ fn = "searchAssets"
    /\ trace = <<>>
    /\ \E st \in SearchStatuses :
          /\ trace' = <<QueryRequest(st)>>
          /\ IF ~Is2xx(st)
             THEN fn' = "done"
                  /\ output' = Thrown(<<"Failed to search assets: ">> \o AxiosMessage(st))
             ELSE IF input.hits.v = <<>>
             THEN fn' = "done" /\ output' = Returned(<<>>)
             ELSE fn' = "hits" /\ output' = [NoOutput EXCEPT !.status = "pending"]
    /\ UNCHANGED input
    /\ UNCHANGED othersVars

\* searchAssets, lines 157-197: one pass of the loop, that is one metadata
\* request and one result; after the last hit the call returns.
AssetsHit ==
    /\ fn = "hits"
    /\ LET i == Len(output.value) + 1
           assetPath == input.hits.v[i]
       IN  \E st \in MetadataFetchStatuses :
           \E data \in IF Is2xx(st) THEN MetadataDataInputs ELSE {NoMetadata} :
             /\ trace' = Append(trace, MetadataRequest(assetPath, st, data))
             /\ IF MetadataFailureFatal(st)
                THEN fn' = "done"
                     /\ output' = Thrown(<<"Failed to search assets: ">> \o AxiosMessage(st))
                ELSE LET results == Append(output.value,
                                           AssetResult(assetPath, st, data,
                                                       input.searchValue,
                                                       input.replaceValue))
                     IN  IF i = Len(input.hits.v)
                         THEN fn' = "done" /\ output' = Returned(results)
                         ELSE UNCHANGED fn
                              /\ output' = [output EXCEPT !.value = results]
    /\ UNCHANGED input
    /\ UNCHANGED othersVars

AssetsNext ==
    \/ AssetsQuery
    \/ AssetsHit

InitAssets == OthersIdle /\ AssetsInit
SpecAssets == InitAssets /\ [][AssetsNext]_vars

(***************************************************************************)
(* Claims about the results of searchAssets                                *)
(***************************************************************************)
AssetsReturned == fn = "done" /\ output.status = "ok"
\* The metadata requests issued so far, in order.
MetadataFetches == SubSeq(trace, 2, Len(trace))

\* C23: searchAssets issues exactly one metadata fetch per hit and returns
\* exactly one result per hit, in hit order; a failed metadata fetch never
\* fails the search, and its hit is returned with empty metadata and the
\* basename of its path as title.
C23_OneFetchAndOneResultPerHit ==
    /\ (trace # <<>> /\ Is2xx(trace[1].status)) => output.status # "error"
    /\ Len(MetadataFetches) <= Len(input.hits.v)
    /\ \A i \in 1..Len(MetadataFetches) :
          MetadataFetches[i].url = MetadataUrl(input.hits.v[i])
    /\ AssetsReturned =>
          /\ Len(MetadataFetches) = Len(input.hits.v)
          /\ Len(output.value) = Len(input.hits.v)
          /\ \A i \in 1..Len(output.value) :
                /\ output.value[i].path = input.hits.v[i]
                /\ ~Is2xx(MetadataFetches[i].status) =>
                      /\ output.value[i].metadata = NoMetadata
                      /\ output.value[i].title = LastSegment(input.hits.v[i])

\* Two hits: the fetch of the first was refused (401), the second answered
\* with a title; both are returned, in hit order.
C23_Witness ==
    /\ AssetsReturned
    /\ input.hits.v = <<FolderAssetPath, OldAssetPath>>
    /\ MetadataFetches[1].status = 401
    /\ MetadataFetches[2].status = 200
    /\ output.value[1].title = <<"a", ".", "p", "n", "g">>
    /\ output.value[1].metadata = NoMetadata
    /\ output.value[2].path = OldAssetPath
    /\ output.value[2].title = <<"x">>

\* C24: when searchValue is supplied and the metadata of a result has a
\* dc:title, the title displayed is that dc:title after replacement, also
\* when the replacement leaves it empty; the unreplaced title is never
\* displayed.
C24_TitleIsReplacedTitle ==
    (AssetsReturned /\ Supplied(input.searchValue)) =>
        \A i \in 1..Len(output.value) :
            TitleKey \in DOMAIN output.value[i].metadata =>
                output.value[i].title = output.value[i].metadata[TitleKey]

\* What the code does: the replaced title is displayed unless it is empty.
TitleIsReplacedTitleUnlessEmpty ==
    (AssetsReturned /\ Supplied(input.searchValue)) =>
        \A i \in 1..Len(output.value) :
            HasTruthyTitle(output.value[i].metadata) =>
                output.value[i].title = output.value[i].metadata[TitleKey]

\* The title "Ab" was searched for and replaced by nothing: the metadata
\* returned has an empty dc:title and the result still displays "Ab".
UnreplacedTitleDisplayed ==
    /\ AssetsReturned
    /\ input.searchValue = Str(<<"a", "b">>)
    /\ \E i \in 1..Len(output.value) :
          /\ MetadataFetches[i].data = MetadataOf(TitleKey, <<"A", "b">>)
          /\ output.value[i].metadata[TitleKey] = <<>>
          /\ output.value[i].title = <<"A", "b">>

(***************************************************************************)
(* Claims about a token given as a tool parameter                          *)
(***************************************************************************)
TokenParameterOnly ==
    /\ Truthy(cParams.token)
    /\ cParams.username = Undef
    /\ cParams.password = Undef
SelectsBearerWithParameterToken ==
    /\ ~cOut.error
    /\ cOut.credentials = [NoCredentials EXCEPT !.token = cParams.token]
EnvironmentHasUserAndPassword ==
    Truthy(cEnv.AEM_USERNAME) /\ Truthy(cEnv.AEM_PASSWORD)

\* C28: when a tool call supplies a token parameter and no username or
\* password parameter, getAEMCredentials selects bearer credentials carrying
\* that token, for every endpoint and every setting of the environment.
C28_TokenParameterSelectsBearer ==
    (cpc = "done" /\ TokenParameterOnly) => SelectsBearerWithParameterToken

\* C28, as the code has it: the parameter token is selected unless the
\* environment supplies both a username and a password and the endpoint
\* matches the managed-cloud pattern; then the environment's username and
\* password are selected and the token is dropped.
C28_TokenParameterSelectsBearerUnlessCloudEnvLogin ==
    (cpc = "done" /\ TokenParameterOnly) =>
        IF EnvironmentHasUserAndPassword /\ MatchesCloudPattern
        THEN /\ ~cOut.error
             /\ cOut.credentials =
                    [NoCredentials EXCEPT !.username = cEnv.AEM_USERNAME,
                                          !.password = cEnv.AEM_PASSWORD]
        ELSE SelectsBearerWithParameterToken

\* A token parameter alone, no endpoint given anywhere (the default endpoint
\* is a managed-cloud host), username and password in the environment: the
\* environment's login was selected.
C28_Witness ==
    /\ cpc = "done"
    /\ TokenParameterOnly
    /\ cParams.authorUrl = Undef /\ cParams.server = Undef
    /\ cEnv.AEM_AUTHOR_URL = Undef
    /\ EnvironmentHasUserAndPassword
    /\ cOut.credentials.token = Undef
    /\ cOut.credentials.username = Str(<<"env-user">>)

\* The same parameters against an on-premise endpoint: the token was selected.
TokenParameterSelectedOffCloud ==
    /\ cpc = "done"
    /\ TokenParameterOnly
    /\ EnvironmentHasUserAndPassword
    /\ ~MatchesCloudPattern
    /\ SelectsBearerWithParameterToken

(***************************************************************************)
(* Claims about the end of a POST exchange                                 *)
(***************************************************************************)
\* The scheduling of one invocation: a step that can be taken is taken (the
\* event loop runs every continuation that is ready).
SpecMainFair == InitMain /\ [][MainNext]_vars /\ WF_vars(MainNext)

Closed(instance) == instance \in {"none", "closed"}
PostReturned == mpc = "returned" /\ delegated

\* C26: on every path through a POST exchange, normal completion as well as
\* an exception during the exchange, the server and the transport created
\* for the invocation have both been closed by the time the invocation
\* returns its response.
C26_InstancesClosedOnReturn ==
    PostReturned => Closed(server) /\ Closed(transport)

\* The exchange completed normally and both instances are still connected.
ReturnedNormallyStillConnected ==
    /\ PostReturned
    /\ ~raised
    /\ response.statusCode = 200
    /\ server = "connected"
    /\ transport = "connected"

\* The exchange raised after both instances were created, the invocation
\* answered with the error envelope, and neither instance was closed.
ReturnedAfterExceptionStillOpen ==
    /\ PostReturned
    /\ raised
    /\ response = MainCatchResponse
    /\ server # "none" /\ ~Closed(server)
    /\ transport # "none" /\ ~Closed(transport)

HandleRequestReturned == mpc = "awaitComplete"

EndedResponseEventuallyReturns ==
    (HandleRequestReturned /\ res.ended) ~> (mpc = "returned")

\* The transport finished with json, send or write: handleRequest has
\* returned, the response is captured, and the invocation is waiting for a
\* completion signal that nothing will send.
WaitingForCompletionForever ==
    /\ HandleRequestReturned
    /\ res.headersSent
    /\ ~res.ended
    /\ ~ENABLED MainNext

(***************************************************************************)
(* The tool handlers aem-create-microsite, aem-search-assets and           *)
(* aem-rename-asset as frames around their client calls: what each returns *)
(* for every outcome of getAEMCredentials and of every remote call.  fn is *)
(* the position in the handler, trace the remote calls issued, output the  *)
(* handler's result (a tool result, or an exception leaving the handler).  *)
(***************************************************************************)
CreateMicrositeTool == "aem-create-microsite"
SearchAssetsTool == "aem-search-assets"
RenameAssetTool == "aem-rename-asset"
AEMTools == {CreateMicrositeTool, SearchAssetsTool, RenameAssetTool}

MaxToolItems == 1
ToolStatuses == {200, 404, 500, 0}
RemoteCall(step, st) == [step |-> step, status |-> st]
StepsIn(t, step) == {i \in 1..Len(t) : t[i].step = step}

\* The exception left the handler: the SDK, not the handler, answers.
Escaped(message) == [status |-> "escaped", value |-> <<>>, message |-> message]
IsToolResult(o) ==
    o.status \in {"success", "failure", "auth-required", "search-param-required",
                  "replace-value-required"}

\* A plausible slip: the client call of aem-rename-asset made outside the
\* try block of its handler.
InsideTryExceptRename(tool) == tool # RenameAssetTool

\* Every statement of the three handlers is inside the handler's try block
\* (aem-create-microsite 274-397, aem-search-assets 1104-1215,
\* aem-rename-asset 1271-1303), whose catch returns a tool result.
InsideTry(tool) == TRUE

\* Where an exception thrown at a statement of the handler goes.
AfterThrow(tool) == IF InsideTry(tool) THEN "catch" ELSE "escaped"

\* The remote call the handler's client makes next, after the calls in t,
\* or "return" when the client call is over.
NextRemoteCall(tool, inp, t) ==
    LET last == t[Len(t)]
    IN  CASE tool = CreateMicrositeTool ->
               IF t = <<>> THEN (IF inp.overwrite THEN "deleteSite" ELSE "createSite")
               ELSE IF last.step = "deleteSite"
               THEN (IF Is2xx(last.status) THEN "createSite" ELSE "directDelete")
               ELSE IF last.step = "directDelete" THEN "createSite"
               ELSE IF Cardinality(StepsIn(t, "createPage")) < inp.items
               THEN "createPage" ELSE "return"
          [] tool = SearchAssetsTool ->
               IF t = <<>> THEN "query"
               ELSE IF Cardinality(StepsIn(t, "metadata")) < inp.items
               THEN "metadata" ELSE "return"
          [] tool = RenameAssetTool ->
               IF t = <<>> THEN "headSource"
               ELSE IF last.step = "headSource" THEN "headTarget"
               ELSE IF last.step = "headTarget" THEN "move"
               ELSE "return"

\* Whether the client call throws on the answer st to a remote call.  The
\* overwrite deletes (part_002 318-356), the page creations (index.js
\* 573-592) and the metadata fetches (aem-asset-client.js 165-179) are
\* inside try blocks of their own that absorb the failure; the probe of the
\* rename target throws when the target exists and absorbs everything else.
ClientThrows(step, st) ==
    CASE step \in {"createSite", "query", "headSource", "move"} -> ~Is2xx(st)
      [] step = "headTarget" -> Is2xx(st)
      [] OTHER -> FALSE

\* A call the handler or its client rejects before any remote call: no
\* search term (1106), a searchValue without replaceValue (1127), neither a
\* site name nor a title (TypeError at 313), a path outside /content/dam
\* (aem-asset-client.js 296-303).
ToolInputs ==
    {inp \in [tool : AEMTools, auth : AuthInputs, env : EnvInputs,
             overwrite : BOOLEAN, items : 0..MaxToolItems,
             termGiven : BOOLEAN, replaceGiven : BOOLEAN, nameGiven : BOOLEAN,
             inDam : BOOLEAN] :
        /\ inp.tool # CreateMicrositeTool => ~inp.overwrite /\ inp.nameGiven
        /\ inp.tool # SearchAssetsTool => inp.termGiven /\ inp.replaceGiven
        /\ inp.tool # RenameAssetTool => inp.inDam
        /\ inp.tool = RenameAssetTool => inp.items = 0}

ToolsInit ==
    /\ fn = "handler"
    /\ input \in ToolInputs
    /\ output = NoOutput
    /\ trace = <<>>

\* The handler up to its client call: the parameter check of
\* aem-search-assets, getAEMCredentials, the statements that follow it.
ToolsResolve ==
    /\ fn = "handler"
    /\ IF ~input.termGiven
       THEN fn' = "done" /\ output' = ToolText("search-param-required")
       ELSE IF GetAEMCredentials(input.auth, input.env).error
       THEN fn' = "done" /\ output' = ToolText("auth-required")
       ELSE IF ~input.replaceGiven
       THEN fn' = "done" /\ output' = ToolText("replace-value-required")
       ELSE IF ~input.nameGiven
       THEN fn' = AfterThrow(input.tool)
            /\ output' = Escaped(<<"Cannot read properties of undefined">>)
       ELSE IF ~input.inDam
       THEN fn' = AfterThrow(input.tool)
            /\ output' = Escaped(<<"Failed to rename asset: ",
                                   "Asset path must start with /content/dam/">>)
       ELSE fn' = "client" /\ UNCHANGED output
    /\ UNCHANGED <<input, trace>>
    /\ UNCHANGED othersVars

\* One remote call of the client call under way, and what follows its
\* answer: an exception, the next remote call, or the success result.
ToolsRemoteCall ==
    /\ fn = "client"
    /\ \E st \in ToolStatuses :
          LET step == NextRemoteCall(input.tool, input, trace)
              t == Append(trace, RemoteCall(step, st))
          IN  /\ trace' = t
              /\ IF ClientThrows(step, st)
                 THEN fn' = AfterThrow(input.tool)
                      /\ output' = Escaped(AxiosMessage(st))
                 ELSE IF NextRemoteCall(input.tool, input, t) = "return"
                 THEN fn' = "done" /\ output' = ToolText("success")
                 ELSE UNCHANGED <<fn, output>>
    /\ UNCHANGED input
    /\ UNCHANGED othersVars

\* The catch block of the handler: a failure text with error.message.
ToolsCatch ==
    /\ fn = "catch"
    /\ fn' = "done"
    /\ output' = [ToolText("failure") EXCEPT !.message = output.message]
    /\ UNCHANGED <<input, trace>>
    /\ UNCHANGED othersVars

ToolsNext == ToolsResolve \/ ToolsRemoteCall \/ ToolsCatch
InitTools == OthersIdle /\ ToolsInit
SpecTools == InitTools /\ [][ToolsNext]_vars

(***************************************************************************)
(* Claims about the results of the tool handlers                           *)
(***************************************************************************)
HandlerOver == fn \in {"done", "escaped"}
CredentialsMissing ==
    input.termGiven /\ GetAEMCredentials(input.auth, input.env).error
RemoteCallFailedTheCall ==
    trace # <<>> /\ ClientThrows(trace[Len(trace)].step, trace[Len(trace)].status)

AuthRequiredBeforeAnyDelete ==
    /\ fn = "done"
    /\ input.tool = CreateMicrositeTool
    /\ input.overwrite
    /\ output.status = "auth-required"
    /\ trace = <<>>

\* aem-search-assets: the query failed without any response.
SearchFailureReturnedAsText ==
    /\ fn = "done"
    /\ input.tool = SearchAssetsTool
    /\ trace = <<RemoteCall("query", 0)>>
    /\ output.status = "failure"

(***************************************************************************)
(* Invocations of aem-create-microsite with overwrite=true on one site     *)
(* path, their remote calls interleaved.  fn holds each invocation's       *)
(* position and locals, input the pages each asks for and whether the site *)
(* exists beforehand, output each invocation's result, and trace the       *)
(* requests in the order the repository served them; the repository's      *)
(* content is what that sequence of requests leaves behind.                *)
(***************************************************************************)
RaceSitePath == <<"content", "shop">>
RacePagePath(pageName) == RaceSitePath \o <<pageName>>
RacePagesInputs == {<<>>, <<"main">>}
\* Who created a node: an invocation, or nobody in this run.
CreatedBy(i) == <<i>>
Preexisting == <<>>

Served(by, method, path, st) ==
    [by |-> by, method |-> method, path |-> path, status |-> st]

\* The repository after the requests of t: each path with the invocation
\* whose request created it.  A delete removes a node with its subtree.
RECURSIVE RepoAfter(_, _)
RepoAfter(existing, t) ==
    IF t = <<>>
    THEN [p \in (IF existing THEN {RaceSitePath} ELSE {}) |-> Preexisting]
    ELSE LET r == RepoAfter(existing, SubSeq(t, 1, Len(t) - 1))
             q == t[Len(t)]
         IN  IF ~Is2xx(q.status) THEN r
             ELSE IF q.method = "DELETE"
             THEN [p \in {p \in DOMAIN r : ~IsPrefix(q.path, p)} |-> r[p]]
             ELSE [p \in DOMAIN r \cup {q.path} |-> IF p = q.path THEN CreatedBy(q.by) ELSE r[p]]

RaceRepo == RepoAfter(input.existing, trace)

\* What the repository answers: a delete of a missing node is a 404, a
\* create over an existing node a conflict, a create under a missing parent
\* a 404.
DeleteAnswer(r, path) == IF path \in DOMAIN r THEN 204 ELSE 404
CreateSiteAnswer(r, path) == IF path \in DOMAIN r THEN 409 ELSE 201
CreatePageAnswer(r, sitePath) == IF sitePath \in DOMAIN r THEN 201 ELSE 404

RaceFrame(p, deleted, created, attempted) ==
    [pc |-> p, deleted |-> deleted, created |-> created, attempted |-> attempted]
NoRaceResult == [status |-> "none", pages |-> <<>>, at |-> 0]

RaceInit ==
    /\ fn = [i \in Invocations |-> RaceFrame("deleteSite", FALSE, <<>>, 0)]
    /\ input \in [existing : BOOLEAN, pages : [Invocations -> RacePagesInputs]]
    /\ output = [i \in Invocations |-> NoRaceResult]
    /\ trace = <<>>

\* aem-create-microsite, lines 318-321: await aemClient.deleteSite(sitePath)
RaceDeleteSite(i) ==
    /\ fn[i].pc = "deleteSite"
    /\ LET st == DeleteAnswer(RaceRepo, RaceSitePath)
       IN  /\ trace' = Append(trace, Served(i, "DELETE", RaceSitePath, st))
           /\ fn' = [fn EXCEPT ![i] =
                        IF Is2xx(st) THEN RaceFrame("settle", TRUE, <<>>, 0)
                        ELSE RaceFrame("directDelete", FALSE, <<>>, 0)]
    /\ UNCHANGED <<input, output>>
    /\ UNCHANGED othersVars

\* lines 322-356: the low-level delete after a failed structured delete
RaceDirectDelete(i) ==
    /\ fn[i].pc = "directDelete"
    /\ LET st == DeleteAnswer(RaceRepo, RaceSitePath)
           deleted == DirectDeleteDeleted(st, AxiosMessage(404))
       IN  /\ trace' = Append(trace, Served(i, "DELETE", RaceSitePath, st))
           /\ fn' = [fn EXCEPT ![i] =
                        RaceFrame(IF deleted THEN "settle" ELSE "createSite",
                                  deleted, <<>>, 0)]
    /\ UNCHANGED <<input, output>>
    /\ UNCHANGED othersVars

\* lines 357-359: the settle delay
RaceSettle(i) ==
    /\ fn[i].pc = "settle"
    /\ fn' = [fn EXCEPT ![i].pc = "createSite"]
    /\ UNCHANGED <<input, output, trace>>
    /\ UNCHANGED othersVars

\* createMicrosite, line 564: await this.createSite(...); its failure is
\* rethrown (599-601) and the handler returns its failure text (397-448).
RaceCreateSite(i) ==
    /\ fn[i].pc = "createSite"
    /\ LET st == CreateSiteAnswer(RaceRepo, RaceSitePath)
       IN  /\ trace' = Append(trace, Served(i, "POST", RaceSitePath, st))
           /\ IF Is2xx(st)
              THEN /\ fn' = [fn EXCEPT ![i].pc = "pages"]
                   /\ UNCHANGED output
              ELSE /\ fn' = [fn EXCEPT ![i].pc = "done"]
                   /\ output' = [output EXCEPT ![i] =
                                    [status |-> "failure", pages |-> <<>>,
                                     at |-> Len(trace')]]
    /\ UNCHANGED input
    /\ UNCHANGED othersVars

\* createMicrosite, lines 573-592: one page-create; a failure is absorbed.
RaceCreatePage(i) ==
    /\ fn[i].pc = "pages"
    /\ fn[i].attempted < Len(input.pages[i])
    /\ LET pageName == input.pages[i][fn[i].attempted + 1]
           st == CreatePageAnswer(RaceRepo, RaceSitePath)
       IN  /\ trace' = Append(trace, Served(i, "POST", RacePagePath(pageName), st))
           /\ fn' = [fn EXCEPT ![i].attempted = @ + 1,
                               ![i].created = IF Is2xx(st) THEN Append(@, pageName)
                                              ELSE @]
    /\ UNCHANGED <<input, output>>
    /\ UNCHANGED othersVars

\* createMicrosite, lines 594-598, and the handler, lines 371-396: the
\* continuation after the last response builds and returns the success
\* result; the repository serves other requests meanwhile.
RaceReturn(i) ==
    /\ fn[i].pc = "pages"
    /\ fn[i].attempted = Len(input.pages[i])
    /\ fn' = [fn EXCEPT ![i].pc = "done"]
    /\ output' = [output EXCEPT ![i] =
                     [status |-> "success", pages |-> fn[i].created,
                      at |-> Len(trace)]]
    /\ UNCHANGED <<input, trace>>
    /\ UNCHANGED othersVars

RaceDeleteSiteSome == \E i \in Invocations : RaceDeleteSite(i)
RaceDirectDeleteSome == \E i \in Invocations : RaceDirectDelete(i)
RaceSettleSome == \E i \in Invocations : RaceSettle(i)
RaceCreateSiteSome == \E i \in Invocations : RaceCreateSite(i)
RaceCreatePageSome == \E i \in Invocations : RaceCreatePage(i)
RaceReturnSome == \E i \in Invocations : RaceReturn(i)

RaceNext ==
    \/ RaceDeleteSiteSome
    \/ RaceDirectDeleteSome
    \/ RaceSettleSome
    \/ RaceCreateSiteSome
    \/ RaceCreatePageSome
    \/ RaceReturnSome
InitRace == OthersIdle /\ RaceInit
SpecRace == InitRace /\ [][RaceNext]_vars

(***************************************************************************)
(* Claims about interleaved overwriting invocations                        *)
(***************************************************************************)
ReportedSuccess(i) == output[i].status = "success"
\* The repository at the moment invocation i returned.
RepoAtReturn(i) == RepoAfter(input.existing, SubSeq(trace, 1, output[i].at))
OwnCreationsExistAtReturn(i) ==
    LET r == RepoAtReturn(i)
    IN  /\ RaceSitePath \in DOMAIN r
        /\ r[RaceSitePath] = CreatedBy(i)
        /\ \A k \in 1..Len(output[i].pages) :
              /\ RacePagePath(output[i].pages[k]) \in DOMAIN r
              /\ r[RacePagePath(output[i].pages[k])] = CreatedBy(i)
RequestsByOthersBeforeReturn(i) ==
    {k \in 1..output[i].at : trace[k].by # i}

\* C30: when two aem-create-microsite invocations with overwrite=true
\* target the same site path and their remote calls interleave in any
\* order, an invocation reports success only if the site it created and
\* every page it lists as created still exist in the repository at the
\* moment it returns.
C30_SuccessOnlyIfCreationsStillExist ==
    \A i \in Invocations : ReportedSuccess(i) => OwnCreationsExistAtReturn(i)

\* What holds: an invocation that ran undisturbed up to its return reports
\* success only for what exists.
UndisturbedSuccessIsTrue ==
    \A i \in Invocations :
        (ReportedSuccess(i) /\ RequestsByOthersBeforeReturn(i) = {}) =>
            OwnCreationsExistAtReturn(i)

\* An invocation created the site and its page, another invocation's delete
\* then removed both, and the first one returned success listing the page:
\* nothing exists at the site path at that moment.
ReportedSuccessForDeletedSite ==
    \E i \in Invocations :
        /\ ReportedSuccess(i)
        /\ output[i].pages = <<"main">>
        /\ DOMAIN RepoAtReturn(i) = {}

====
